---- MODULE Spec2Model ----
(***************************************************************************)
(* Procedure call-interface lowering (flang/lib/Lower/CallInterface.cpp).  *)
(*                                                                         *)
(* A CallInterface object is a record                                      *)
(*   [side, inputs, outputs, passedArguments, passedResult, saveResult,    *)
(*    fail, entities]                                                      *)
(* inputs/outputs are sequences of FirPlaceHolder records, passedArguments *)
(* a sequence of PassedEntity records, passedResult an optional            *)
(* PassedEntity (a sequence of length 0 or 1).  Physical (MLIR) types are  *)
(* sequences of tokens, outermost wrapper first: <<"ref","array","i32">>.  *)
(***************************************************************************)
EXTENDS Integers, Sequences, FiniteSets, TLC

\* ------------------------------------------------------------------ bounds
\* The interface objects (callers, callees, signature builders) one
\* compilation creates.
MaxObjects == 2

\* The interface objects built in the signature-construction specification.
MaxBuilt == 1

\* ------------------------------------------------------- small utilities
Min(a, b) == IF a < b THEN a ELSE b

\* ----------------------------------------------------- program constants
\* FirPlaceHolder::resultEntityPosition: the reserved owner of result slots.
resultEntityPosition == -1

\* emptyValue(): an unresolved slot index (caller, signature-only side) and
\* the null mlir::Value (callee side) are both written -1.
emptyValue == -1

\* converter.hostAssocTupleValue(): the value the host-association
\* PassedEntity holds in firArgument before the entry block is mapped.
hostAssocTupleValue == -2

\* ------------------------------------------------------------ type lowering
\* getConverter().genType(category, kind): the kind is fixed in this model.
genType(cat) ==
  CASE cat = "Integer" -> <<"i32">>
    [] cat = "Real" -> <<"f32">>
    [] cat = "Logical" -> <<"l32">>
    [] cat = "Character" -> <<"char", "?">>
    [] OTHER -> <<"none">>

\* A dynamic type is a record with fields cat, dk (derived-type kind:
\* "plain", "cptr", "vector", "final"), poly ("no", "class", "unlimited"),
\* knownLen (the compile-time character length, optional: <<>> or <<n>>).
\* The length parameter of a character type is written "?" when unknown,
\* "1" for length one and "n" for any other constant.
lenToken(knownLength) ==
  IF knownLength = <<>> THEN "?"
  ELSE IF knownLength[1] = 1 THEN "1" ELSE "n"

translateDynamicType(dyn) ==
  IF dyn.cat = "Derived"
    THEN IF dyn.poly = "unlimited" THEN <<"none">> ELSE <<"record", dyn.dk>>
    ELSE IF dyn.cat = "Character" /\ dyn.knownLen # <<>>
      THEN <<"char", lenToken(dyn.knownLen)>>
      ELSE genType(dyn.cat)

\* getBounds: nullopt exactly for a scalar (a present, empty shape); an
\* assumed-rank entity has no shape and yields an empty bounds vector.
hasBounds(ts) == ts.rank > 0 \/ ts.shapeAttr = "AssumedRank"

isa_char(ty) == Len(ty) > 0 /\ ty[1] = "char"

isa_SequenceType(ty) == Len(ty) > 0 /\ ty[1] = "array"

isa_builtin_cptr_type(ty) == ty = <<"record", "cptr">>

wrapInClassOrBoxType(ty, isPoly, isAssumedType) ==
  IF isPoly /\ ~isAssumedType THEN <<"class">> \o ty ELSE <<"box">> \o ty

getRefType(dyn, obj) ==
  <<"ref">> \o (IF hasBounds(obj) THEN <<"array">> \o translateDynamicType(dyn)
                                  ELSE translateDynamicType(dyn))

\* getProcedureDesignatorType: always the untyped boxproc.
getProcedureDesignatorType == <<"boxproc">>

\* ------------------------------------------------------ slot construction
\* A CallInterface before determineInterface.  entities is the side's entity
\* container (getEntityContainer), altReturns the side's
\* hasAlternateReturns(), hostAssoc the side's hasHostAssociated().
EmptyInterface(side, entities, altReturns, hostAssoc) ==
  [side |-> side, inputs |-> <<>>, outputs |-> <<>>,
   passedArguments |-> <<>>, passedResult |-> <<>>, saveResult |-> FALSE,
   fail |-> "none", entities |-> entities, altReturns |-> altReturns,
   hostAssoc |-> hostAssoc]

FirPlaceHolder(ty, pos, p, attrs) ==
  [type |-> ty, passedEntityPosition |-> pos, property |-> p,
   attributes |-> attrs]

PassedEntity(p, entity, characteristics) ==
  [passBy |-> p, entity |-> entity, firArgument |-> emptyValue,
   firLength |-> emptyValue, characteristics |-> characteristics]

\* Fault variant of addFirOperand: the slot is inserted at the front.
prependFirOperand(ifc, ty, pos, p, attrs) ==
  [ifc EXCEPT !.inputs = <<FirPlaceHolder(ty, pos, p, attrs)>> \o @]

addFirOperand(ifc, ty, pos, p, attrs) ==
  [ifc EXCEPT !.inputs = Append(@, FirPlaceHolder(ty, pos, p, attrs))]

addFirResult(ifc, ty, pos, p) ==
  [ifc EXCEPT !.outputs = Append(@, FirPlaceHolder(ty, pos, p, {}))]

addPassedArg(ifc, p, entity, characteristics) ==
  [ifc EXCEPT !.passedArguments =
                 Append(@, PassedEntity(p, entity, characteristics))]

setPassedResult(ifc, p, entity) ==
  [ifc EXCEPT !.passedResult = <<PassedEntity(p, entity, 0)>>]

setSaveResult(ifc) == [ifc EXCEPT !.saveResult = TRUE]

nextPassedArgPosition(ifc) == Len(ifc.passedArguments)

\* Fault variant of TODO: the failure is not raised and the build goes on.
todoIgnored(ifc) == ifc

\* TODO(loc, ...): a not-yet-implemented failure ends the compilation.
todo(ifc) == [ifc EXCEPT !.fail = "todo"]

\* getDataObjectEntity / getResultEntity: an entity is named by its position
\* in the side's entity container; 0 is "no entity" (an absent actual
\* argument, the caller's result, a FakeEntity).
getDataObjectEntity(ifc, i) ==
  IF ifc.side = "sig" THEN 0
  ELSE IF ifc.entities[i].present THEN i ELSE 0

\* The callee's result entity is the result symbol, written -1.
getResultEntity(ifc) == IF ifc.side = "callee" THEN -1 ELSE 0

dummyNameAttr(ifc, e) ==
  IF ifc.side = "callee" /\ e # 0 THEN {"fir.bindc_name"} ELSE {}

\* ------------------------------------------- characteristics (Evaluate)
\* A dummy argument is a record with fields
\*   k ("data", "proc", "alt"), cat, dk, poly, knownLen, assumedType,
\*   rank, shapeAttr ("none", "AssumedShape", "AssumedRank", "DeferredShape",
\*   "AssumedSize"), corank, attrs (a set of attribute names), intent,
\*   rcat (result category of a dummy procedure, "None" without a typed
\*   result), rbindC (the dummy procedure's interface is BIND(C)).
\* A function result is a record with fields k ("data", "procptr"), cat, dk,
\* poly, knownLen, dynLen (a character length that is neither constant nor
\* assumed), rank, shapeAttr, attrs.
\* A procedure is [functionResult (optional: a sequence of length <= 1),
\* dummyArguments, bindC, implicitInterface, elemental].

ImplicitForbiddenAttrs ==
  {"Allocatable", "Asynchronous", "Optional", "Pointer", "Target", "Value",
   "Volatile"}

DummyDataObject_CanBePassedViaImplicitInterface(obj) ==
  /\ obj.attrs \cap ImplicitForbiddenAttrs = {}
  /\ obj.shapeAttr \notin {"AssumedRank", "AssumedShape", "DeferredShape"}
  /\ obj.corank = 0
  /\ obj.poly = "no"
  /\ ~obj.assumedType

DummyArgument_CanBePassedViaImplicitInterface(d) ==
  CASE d.k = "data" -> DummyDataObject_CanBePassedViaImplicitInterface(d)
    [] d.k = "proc" -> d.attrs = {}
    [] OTHER -> TRUE

IsPassedByDescriptor(obj, isBindC) ==
  \/ obj.attrs \cap {"Allocatable", "Pointer"} # {}
  \/ obj.shapeAttr \in {"AssumedShape", "DeferredShape", "AssumedRank"}
  \/ obj.corank > 0
  \/ (obj.poly # "no" /\ ~obj.assumedType)
  \/ (isBindC /\ obj.cat = "Character" /\ obj.knownLen = <<>>)

CanBeReturnedViaImplicitInterface(res) ==
  /\ res.k = "data"
  /\ res.attrs = {}
  /\ res.rank = 0
  /\ res.poly = "no"
  /\ ~res.dynLen

CanBeCalledViaImplicitInterface(procedure) ==
  /\ ~procedure.elemental
  /\ ~procedure.bindC
  /\ \A i \in 1..Len(procedure.functionResult) :
        CanBeReturnedViaImplicitInterface(procedure.functionResult[i])
  /\ \A i \in 1..Len(procedure.dummyArguments) :
        DummyArgument_CanBePassedViaImplicitInterface(
          procedure.dummyArguments[i])

HasExplicitInterface(procedure) == ~procedure.implicitInterface

\* ---------------------------------------------------------- result rules
\* Fault variant of handleImplicitCharacterResult: the length is not passed
\* and the caller is asked to save the result.
handleCharacterResultByAddress(ifc, dyn) ==
  LET charRefTy == <<"ref", "char", lenToken(dyn.knownLen)>>
      a == setPassedResult(ifc, "BaseAddress", getResultEntity(ifc))
      b == addFirOperand(a, charRefTy, resultEntityPosition, "CharAddress",
                         {})
  IN setSaveResult(addFirResult(b, <<"boxchar">>, resultEntityPosition,
                                "BoxChar"))

\* Fault variant of handleImplicitCharacterResult: the caller is also asked
\* to save the boxchar.
handleImplicitCharacterResultSaved(ifc, dyn) ==
  LET charRefTy == <<"ref", "char", lenToken(dyn.knownLen)>>
      a == setPassedResult(ifc, "AddressAndLength", getResultEntity(ifc))
      b == addFirOperand(a, charRefTy, resultEntityPosition, "CharAddress",
                         {})
      d == addFirOperand(b, <<"index">>, resultEntityPosition, "CharLength",
                         {})
  IN setSaveResult(addFirResult(d, <<"boxchar">>, resultEntityPosition,
                                "BoxChar"))

handleImplicitCharacterResult(ifc, dyn) ==
  LET charRefTy == <<"ref", "char", lenToken(dyn.knownLen)>>
      a == setPassedResult(ifc, "AddressAndLength", getResultEntity(ifc))
      b == addFirOperand(a, charRefTy, resultEntityPosition, "CharAddress",
                         {})
      c == addFirOperand(b, <<"index">>, resultEntityPosition, "CharLength",
                         {})
  IN addFirResult(c, <<"boxchar">>, resultEntityPosition, "BoxChar")

\* Fault variant of handleImplicitResult: a derived-type result never asks
\* the caller to save it.
handleImplicitResultNoSave(ifc, result, isBindC) ==
  IF result.k = "procptr"
    THEN addFirResult(ifc, <<"boxproc", "fn">>, resultEntityPosition, "Value")
  ELSE IF result.cat = "Character"
    THEN IF isBindC
      THEN addFirResult(ifc, translateDynamicType(result),
                        resultEntityPosition, "Value")
      ELSE handleImplicitCharacterResult(ifc, result)
  ELSE IF result.cat = "Derived"
    THEN addFirResult(ifc, translateDynamicType(result),
                      resultEntityPosition, "Value")
  ELSE addFirResult(ifc, genType(result.cat), resultEntityPosition, "Value")

handleImplicitResult(ifc, result, isBindC) ==
  IF result.k = "procptr"
    THEN addFirResult(ifc, <<"boxproc", "fn">>, resultEntityPosition, "Value")
  ELSE IF result.cat = "Character"
    THEN IF isBindC
      THEN addFirResult(ifc, translateDynamicType(result),
                        resultEntityPosition, "Value")
      ELSE handleImplicitCharacterResult(ifc, result)
  ELSE IF result.cat = "Derived"
    THEN addFirResult(IF result.dk # "vector" THEN setSaveResult(ifc) ELSE ifc,
                      translateDynamicType(result), resultEntityPosition,
                      "Value")
  ELSE addFirResult(ifc, genType(result.cat), resultEntityPosition, "Value")

\* Fault variant of handleExplicitResult: the caller is never asked to save
\* the result.
handleExplicitResultNoSave(ifc, result) ==
  IF result.k = "procptr"
    THEN addFirResult(ifc, <<"boxproc", "fn">>, resultEntityPosition, "Value")
  ELSE
    LET t0 == translateDynamicType(result)
        t1 == IF hasBounds(result) THEN <<"array">> \o t0 ELSE t0
        t2 == IF "Allocatable" \in result.attrs
                THEN wrapInClassOrBoxType(<<"heap">> \o t1,
                                          result.poly # "no", FALSE)
                ELSE t1
        mlirType == IF "Pointer" \in result.attrs
                      THEN wrapInClassOrBoxType(<<"ptr">> \o t2,
                                                result.poly # "no", FALSE)
                      ELSE t2
    IN IF isa_char(mlirType)
         THEN handleImplicitCharacterResult(ifc, result)
         ELSE addFirResult(ifc, mlirType, resultEntityPosition, "Value")

handleExplicitResult(ifc, result) ==
  IF result.k = "procptr"
    THEN addFirResult(ifc, <<"boxproc", "fn">>, resultEntityPosition, "Value")
  ELSE
    LET t0 == translateDynamicType(result)
        t1 == IF hasBounds(result) THEN <<"array">> \o t0 ELSE t0
        t2 == IF "Allocatable" \in result.attrs
                THEN wrapInClassOrBoxType(<<"heap">> \o t1,
                                          result.poly # "no", FALSE)
                ELSE t1
        mlirType == IF "Pointer" \in result.attrs
                      THEN wrapInClassOrBoxType(<<"ptr">> \o t2,
                                                result.poly # "no", FALSE)
                      ELSE t2
    IN IF isa_char(mlirType)
         THEN handleImplicitCharacterResult(ifc, result)
         ELSE setSaveResult(addFirResult(ifc, mlirType, resultEntityPosition,
                                         "Value"))

\* -------------------------------------------------------- argument rules
\* Fault variant of handleImplicitDummy for a data object: a character is
\* passed in two slots, its address and its length.
handleImplicitDummySplitCharacter(ifc, ch, obj, e) ==
  IF ifc.side = "caller" /\ e # 0 /\ ifc.entities[e].pv = "val"
    THEN addPassedArg(
           addFirOperand(ifc, translateDynamicType(obj),
                         nextPassedArgPosition(ifc), "Value",
                         dummyNameAttr(ifc, e)),
           "Value", e, ch)
  ELSE IF obj.cat = "Character"
    THEN addPassedArg(
           addFirOperand(
             addFirOperand(ifc, <<"ref", "char", lenToken(obj.knownLen)>>,
                           nextPassedArgPosition(ifc), "CharAddress",
                           dummyNameAttr(ifc, e)),
             <<"index">>, nextPassedArgPosition(ifc), "CharLength", {}),
           "AddressAndLength", e, ch)
  ELSE addPassedArg(
         addFirOperand(ifc, getRefType(obj, obj), nextPassedArgPosition(ifc),
                       "BaseAddress", dummyNameAttr(ifc, e)),
         "BaseAddress", e, ch)

\* handleImplicitDummy for a data object.  ch is the position of the dummy's
\* characteristics, e the entity paired with it by the builder's zip.
handleImplicitDummyObject(ifc, ch, obj, e) ==
  IF ifc.side = "caller" /\ e # 0 /\ ifc.entities[e].pv = "val"
    THEN addPassedArg(
           addFirOperand(ifc, translateDynamicType(obj),
                         nextPassedArgPosition(ifc), "Value",
                         dummyNameAttr(ifc, e)),
           "Value", e, ch)
  ELSE IF ifc.side = "caller" /\ e # 0 /\ ifc.entities[e].pv = "ref"
    THEN addPassedArg(
           addFirOperand(ifc, getRefType(obj, obj),
                         nextPassedArgPosition(ifc), "BaseAddress",
                         dummyNameAttr(ifc, e)),
           "BaseAddress", e, ch)
  ELSE IF obj.cat = "Character"
    THEN addPassedArg(
           addFirOperand(ifc, <<"boxchar">>, nextPassedArgPosition(ifc),
                         "BoxChar", dummyNameAttr(ifc, e)),
           "BoxChar", e, ch)
  ELSE addPassedArg(
         addFirOperand(ifc, getRefType(obj, obj), nextPassedArgPosition(ifc),
                       "BaseAddress", dummyNameAttr(ifc, e)),
         "BaseAddress", e, ch)

getResultDynamicType(proc) == proc.rcat

mustPassLengthWithDummyProcedure(proc) ==
  getResultDynamicType(proc) # "None"
    /\ getResultDynamicType(proc) = "Character"

\* handleImplicitDummy for a dummy procedure.
handleImplicitDummyProcedure(ifc, ch, proc, e, hlfir) ==
  IF ~hlfir /\ "Pointer" \in proc.attrs
    THEN todo(ifc)
  ELSE IF "Pointer" \in proc.attrs
    THEN addPassedArg(
           addFirOperand(ifc, <<"ref">> \o getProcedureDesignatorType,
                         nextPassedArgPosition(ifc), "BoxProcRef", {}),
           "BoxProcRef", e, ch)
  ELSE IF getResultDynamicType(proc) # "None"
          /\ mustPassLengthWithDummyProcedure(proc)
    THEN addPassedArg(
           addFirOperand(ifc, <<"tuple", "boxproc", "i64">>,
                         nextPassedArgPosition(ifc), "CharProcTuple",
                         {"fir.char_proc"}),
           "CharProcTuple", e, ch)
  ELSE addPassedArg(
         addFirOperand(ifc, getProcedureDesignatorType,
                       nextPassedArgPosition(ifc), "BaseAddress", {}),
         "BaseAddress", e, ch)

\* The MLIR attributes handleExplicitDummy attaches to the slot.
explicitDummyAttrs(ifc, obj, e) ==
  dummyNameAttr(ifc, e)
    \cup (IF "Optional" \in obj.attrs THEN {"fir.optional"} ELSE {})
    \cup (IF "Contiguous" \in obj.attrs THEN {"fir.contiguous"} ELSE {})
    \cup (IF "Asynchronous" \in obj.attrs THEN {"fir.asynchronous"} ELSE {})
    \cup (IF "Target" \in obj.attrs THEN {"fir.target"} ELSE {})

\* Fault variant of explicitValueOrAddress: a VALUE dummy is always passed
\* by reference to a copy.
explicitAlwaysAddress(obj, ty, isBindC) ==
  IF "Value" \in obj.attrs
    THEN <<(<<"ref">> \o ty), "BaseAddressValueAttribute", "BaseAddress">>
    ELSE <<(<<"ref">> \o ty), "BaseAddress", "BaseAddress">>

\* Fault variant of explicitValueOrAddress: the interoperable pointer
\* carrier is treated as any other derived type.
explicitValueNoCptr(obj, ty, isBindC) ==
  IF "Value" \in obj.attrs
    THEN IF isBindC \/ (~isa_SequenceType(ty) /\ "Optional" \notin obj.attrs
                         /\ obj.cat # "Derived")
      THEN <<ty, "Value", "Value">>
      ELSE <<(<<"ref">> \o ty), "BaseAddressValueAttribute", "BaseAddress">>
    ELSE <<(<<"ref">> \o ty), "BaseAddress", "BaseAddress">>

\* The last branch of handleExplicitDummy: by reference, or by value for
\* VALUE dummies.  Returns <<passType, passBy, prop>>.
explicitValueOrAddress(obj, ty, isBindC) ==
  IF "Value" \in obj.attrs
    THEN IF isBindC \/ (~isa_SequenceType(ty) /\ "Optional" \notin obj.attrs
                         /\ (obj.cat # "Derived"
                              \/ isa_builtin_cptr_type(ty)))
      THEN <<IF isa_builtin_cptr_type(ty) THEN <<"ref", "i64">> ELSE ty,
             "Value", "Value">>
      ELSE <<(<<"ref">> \o ty), "BaseAddressValueAttribute", "BaseAddress">>
    ELSE <<(<<"ref">> \o ty), "BaseAddress", "BaseAddress">>

\* Fault variant of explicitCharacter: a boxed character is passed BoxChar
\* whether or not it has the VALUE attribute.
explicitCharacterNoValueMode(isValueAttr, isBindC) ==
  IF isValueAttr /\ isBindC
    THEN <<(<<"char", "1">>), "Value", "Value">>
    ELSE <<(<<"boxchar">>), "BoxChar", "BoxChar">>

\* The character branch of handleExplicitDummy: a single character by
\* value, or a boxchar.  Returns <<passType, passBy, prop>>.
explicitCharacter(isValueAttr, isBindC) ==
  IF isValueAttr /\ isBindC
    THEN <<(<<"char", "1">>), "Value", "Value">>
    ELSE <<(<<"boxchar">>),
           IF isValueAttr THEN "CharBoxValueAttribute" ELSE "BoxChar",
           "BoxChar">>

handleExplicitDummy(ifc, ch, obj, e, isBindC, hlfir) ==
  LET attrs == explicitDummyAttrs(ifc, obj, e)
      isValueAttr == "Value" \in obj.attrs
      t0 == translateDynamicType(obj)
      t1 == IF hasBounds(obj) THEN <<"array">> \o t0 ELSE t0
      t2 == IF "Allocatable" \in obj.attrs THEN <<"heap">> \o t1 ELSE t1
      ty == IF "Pointer" \in obj.attrs THEN <<"ptr">> \o t2 ELSE t2
      boxType == wrapInClassOrBoxType(ty, obj.poly # "no", obj.assumedType)
      pos == nextPassedArgPosition(ifc)
      byRef == explicitValueOrAddress(obj, ty, isBindC)
      byChar == explicitCharacter(isValueAttr, isBindC)
  IN IF obj.corank > 0
       THEN todo(ifc)
     ELSE IF obj.attrs \cap {"Allocatable", "Pointer"} # {}
       THEN addPassedArg(
              addFirOperand(ifc,
                            <<IF "Volatile" \in obj.attrs THEN "vref"
                                                          ELSE "ref">>
                              \o boxType,
                            pos, "MutableBox", attrs),
              "MutableBox", e, ch)
     ELSE IF IsPassedByDescriptor(obj, isBindC)
       THEN IF isValueAttr /\ ~hlfir
         THEN todo(ifc)
         ELSE addPassedArg(addFirOperand(ifc, boxType, pos, "Box", attrs),
                           "Box", e, ch)
     ELSE IF obj.cat = "Character"
       THEN addPassedArg(addFirOperand(ifc, byChar[1], pos, byChar[3], attrs),
                         byChar[2], e, ch)
     ELSE addPassedArg(addFirOperand(ifc, byRef[1], pos, byRef[3], attrs),
                       byRef[2], e, ch)

\* ------------------------------------------------------------ the builder
\* Fault variant of implicitStep: the generic visitor also handles the
\* alternate-return marker and records a PassedEntity for it.
implicitStepAltAsDummy(ifc, procedure, i, hlfir) ==
  LET d == procedure.dummyArguments[i]
      e == getDataObjectEntity(ifc, i)
  IN CASE d.k = "data" -> handleImplicitDummyObject(ifc, i, d, e)
       [] d.k = "proc" -> handleImplicitDummyProcedure(ifc, i, d, e, hlfir)
       [] OTHER -> addPassedArg(ifc, "BaseAddress", e, i)

\* One iteration of the llvm::zip loop of buildImplicitInterface.
implicitStep(ifc, procedure, i, hlfir) ==
  LET d == procedure.dummyArguments[i]
      e == getDataObjectEntity(ifc, i)
  IN CASE d.k = "data" -> handleImplicitDummyObject(ifc, i, d, e)
       [] d.k = "proc" -> handleImplicitDummyProcedure(ifc, i, d, e, hlfir)
       [] OTHER -> ifc

\* Fault variant of explicitStep: a VALUE data object is routed to the
\* implicit rules whatever its other attributes.
explicitStepValueFirst(ifc, procedure, i, hlfir) ==
  LET d == procedure.dummyArguments[i]
      e == getDataObjectEntity(ifc, i)
  IN CASE d.k = "data" ->
            IF "Value" \in d.attrs
                 \/ (~procedure.bindC
                       /\ DummyDataObject_CanBePassedViaImplicitInterface(d))
              THEN handleImplicitDummyObject(ifc, i, d, e)
              ELSE handleExplicitDummy(ifc, i, d, e, procedure.bindC, hlfir)
       [] d.k = "proc" -> handleImplicitDummyProcedure(ifc, i, d, e, hlfir)
       [] OTHER -> ifc

\* Fault variant of explicitStep: a TARGET data object is passed as if it
\* were a pointer.
explicitStepTargetAsPointer(ifc, procedure, i, hlfir) ==
  LET d == procedure.dummyArguments[i]
      e == getDataObjectEntity(ifc, i)
  IN CASE d.k = "data" ->
            IF ~procedure.bindC
                 /\ DummyDataObject_CanBePassedViaImplicitInterface(d)
              THEN handleImplicitDummyObject(ifc, i, d, e)
              ELSE handleExplicitDummy(
                     ifc, i,
                     IF "Target" \in d.attrs
                       THEN [d EXCEPT !.attrs = @ \cup {"Pointer"}] ELSE d,
                     e, procedure.bindC, hlfir)
       [] d.k = "proc" -> handleImplicitDummyProcedure(ifc, i, d, e, hlfir)
       [] OTHER -> ifc

\* One iteration of the llvm::zip loop of buildExplicitInterface.
explicitStep(ifc, procedure, i, hlfir) ==
  LET d == procedure.dummyArguments[i]
      e == getDataObjectEntity(ifc, i)
  IN CASE d.k = "data" ->
            IF ~procedure.bindC
                 /\ DummyDataObject_CanBePassedViaImplicitInterface(d)
              THEN handleImplicitDummyObject(ifc, i, d, e)
              ELSE handleExplicitDummy(ifc, i, d, e, procedure.bindC, hlfir)
       [] d.k = "proc" -> handleImplicitDummyProcedure(ifc, i, d, e, hlfir)
       [] OTHER -> ifc

\* llvm::zip stops at the end of the shorter range.  A failed build stops.
RECURSIVE zipDummies(_, _, _, _, _)
zipDummies(ifc, procedure, i, isImplicit, hlfir) ==
  LET loop(v) ==
        IF i > Min(Len(procedure.dummyArguments), Len(v.entities))
             \/ v.fail # "none"
          THEN v
          ELSE zipDummies(IF isImplicit
                            THEN implicitStep(v, procedure, i, hlfir)
                            ELSE explicitStep(v, procedure, i, hlfir),
                          procedure, i + 1, isImplicit, hlfir)
  IN CHOOSE r \in {loop(v) : v \in {ifc}} : TRUE

\* Fault variant of buildImplicitInterface: the first dummy argument is
\* skipped.
buildImplicitInterfaceSkipFirst(ifc, procedure, hlfir) ==
  LET r == IF Len(procedure.functionResult) > 0
             THEN handleImplicitResult(ifc, procedure.functionResult[1],
                                       procedure.bindC)
             ELSE IF ifc.altReturns
               THEN addFirResult(ifc, <<"index">>, resultEntityPosition,
                                 "Value")
               ELSE ifc
  IN zipDummies(r, procedure, 2, TRUE, hlfir)

buildImplicitInterface(ifc, procedure, hlfir) ==
  LET r == IF Len(procedure.functionResult) > 0
             THEN handleImplicitResult(ifc, procedure.functionResult[1],
                                       procedure.bindC)
             ELSE IF ifc.altReturns
               THEN addFirResult(ifc, <<"index">>, resultEntityPosition,
                                 "Value")
               ELSE ifc
  IN zipDummies(r, procedure, 1, TRUE, hlfir)

\* Fault variant of buildExplicitInterface: every result goes through
\* handleExplicitResult.
buildExplicitInterfaceOwnResult(ifc, procedure, hlfir) ==
  LET r == IF Len(procedure.functionResult) > 0
             THEN handleExplicitResult(ifc, procedure.functionResult[1])
             ELSE IF ifc.altReturns
               THEN addFirResult(ifc, <<"index">>, resultEntityPosition,
                                 "Value")
               ELSE ifc
  IN zipDummies(r, procedure, 1, FALSE, hlfir)

buildExplicitInterface(ifc, procedure, hlfir) ==
  LET r == IF Len(procedure.functionResult) > 0
             THEN IF CanBeReturnedViaImplicitInterface(
                       procedure.functionResult[1])
               THEN handleImplicitResult(ifc, procedure.functionResult[1],
                                         procedure.bindC)
               ELSE handleExplicitResult(ifc, procedure.functionResult[1])
             ELSE IF ifc.altReturns
               THEN addFirResult(ifc, <<"index">>, resultEntityPosition,
                                 "Value")
               ELSE ifc
  IN zipDummies(r, procedure, 1, FALSE, hlfir)

appendHostAssocTupleArg(ifc) ==
  [addFirOperand(ifc, <<"ref", "tuple">>, nextPassedArgPosition(ifc),
                 "BaseAddress", {"fir.host_assoc"})
     EXCEPT !.passedArguments =
              Append(@, [PassedEntity("BaseAddress", 0, 0)
                           EXCEPT !.firArgument = hostAssocTupleValue])]

determineInterface(ifc, isImplicit, procedure, hlfir) ==
  LET host(b) == IF b.fail = "none" /\ b.side = "callee" /\ b.hostAssoc
                   THEN appendHostAssocTupleArg(b)
                   ELSE b
  IN CHOOSE r \in
       {host(b) :
          b \in {IF isImplicit
                   THEN buildImplicitInterface(ifc, procedure, hlfir)
                   ELSE buildExplicitInterface(ifc, procedure, hlfir)}} :
       TRUE

\* genFunctionType: <<input types, result types>>.
genFunctionType(ifc) ==
  <<[i \in 1..Len(ifc.inputs) |-> ifc.inputs[i].type],
    [i \in 1..Len(ifc.outputs) |-> ifc.outputs[i].type]>>

\* ------------------------------------------------------- mapping entities
mapBackInputToPassedEntity(ifc, placeHolder, firValue) ==
  IF placeHolder.passedEntityPosition = resultEntityPosition
    THEN IF placeHolder.property = "CharLength"
      THEN [ifc EXCEPT !.passedResult[1].firLength = firValue]
      ELSE [ifc EXCEPT !.passedResult[1].firArgument = firValue]
    ELSE IF placeHolder.property = "CharLength"
      THEN [ifc EXCEPT
              !.passedArguments[placeHolder.passedEntityPosition + 1]
                 .firLength = firValue]
      ELSE [ifc EXCEPT
              !.passedArguments[placeHolder.passedEntityPosition + 1]
                 .firArgument = firValue]

RECURSIVE mapInputs(_, _, _)
mapInputs(ifc, i, n) ==
  LET loop(v) ==
        IF i > n THEN v
        ELSE mapInputs(mapBackInputToPassedEntity(v, v.inputs[i], i - 1),
                       i + 1, n)
  IN CHOOSE r \in {loop(v) : v \in {ifc}} : TRUE

\* mapPassedEntities.  On the callee side numArgs is the number of arguments
\* of the function's entry block and llvm::zip pairs the inputs with them;
\* on the other sides the position of the input is recorded.
mapPassedEntities(ifc, numArgs) ==
  IF ifc.side = "callee"
    THEN mapInputs(ifc, 1, Min(Len(ifc.inputs), numArgs))
    ELSE mapInputs(ifc, 1, Len(ifc.inputs))

\* ------------------------------------------------- PassedEntity queries
\* The queries read the dummy characteristics the PassedEntity points to:
\* dummies is the dummy-argument list of the interface's characteristics,
\* and position 0 is the null pointer (the host-association tuple).
isIntentOut(pe, dummies) ==
  IF pe.characteristics = 0 THEN TRUE
  ELSE dummies[pe.characteristics].intent = "Out"

hasValueAttribute(pe, dummies) ==
  IF pe.characteristics = 0 THEN FALSE
  ELSE /\ dummies[pe.characteristics].k = "data"
       /\ "Value" \in dummies[pe.characteristics].attrs

mayBeModifiedByCall(pe, dummies) ==
  IF pe.characteristics = 0 THEN TRUE
  ELSE IF dummies[pe.characteristics].intent = "In" THEN FALSE
  ELSE ~hasValueAttribute(pe, dummies)

mayBeReadByCall(pe, dummies) ==
  IF pe.characteristics = 0 THEN TRUE
  ELSE dummies[pe.characteristics].intent # "Out"

\* Fault variant of mayRequireIntentoutFinalization: allocatable and
\* pointer dummies are not exempted.
mayRequireFinalizationOfAllocatable(pe, dummies) ==
  IF pe.characteristics = 0 THEN TRUE
  ELSE IF ~isIntentOut(pe, dummies) THEN FALSE
  ELSE LET dummy == dummies[pe.characteristics]
       IN IF dummy.k # "data" THEN TRUE
          ELSE IF dummy.poly # "no" THEN TRUE
          ELSE IF dummy.cat # "Derived" THEN FALSE
          ELSE dummy.dk = "final"

mayRequireIntentoutFinalization(pe, dummies) ==
  IF pe.characteristics = 0 THEN TRUE
  ELSE IF ~isIntentOut(pe, dummies) THEN FALSE
  ELSE LET dummy == dummies[pe.characteristics]
       IN IF dummy.k # "data" THEN TRUE
          ELSE IF dummy.attrs \cap {"Allocatable", "Pointer"} # {} THEN FALSE
          ELSE IF dummy.poly # "no" THEN TRUE
          ELSE IF dummy.cat # "Derived" THEN FALSE
          ELSE dummy.dk = "final"

\* ----------------------------------------------------- the symbol table
\* funcs maps a mangled name to an optional FuncOp
\* [type, argAttrs, blocks]; a block is the sequence of its argument types.
FuncOp(ifc) ==
  [type |-> genFunctionType(ifc),
   argAttrs |-> [i \in 1..Len(ifc.inputs) |-> ifc.inputs[i].attributes],
   blocks |-> <<>>]

\* Fault variant of getOrCreateNamedFunction: the function is created
\* without looking the name up first.
createNamedFunction(fs, name, ifc) == [fs EXCEPT ![name] = <<FuncOp(ifc)>>]

\* The direct-call part of declare(): get the named function, create it
\* from this interface's slots when there is none.
getOrCreateNamedFunction(fs, name, ifc) ==
  IF fs[name] # <<>> THEN fs ELSE [fs EXCEPT ![name] = <<FuncOp(ifc)>>]

\* ------------------------------------------------------------ caller side
\* An actual argument is a record with fields k ("data", "proc", "alt",
\* "absent"), cat, dk, poly, knownLen, rank, shapeAttr, pv ("none", "val",
\* "ref"), pass (the passed object), rcat.

\* DummyArgument::FromActual(..., forImplicitInterface=true).
FromActual(a) ==
  [k |-> a.k, cat |-> a.cat, dk |-> a.dk, poly |-> a.poly,
   knownLen |-> a.knownLen, assumedType |-> FALSE, rank |-> a.rank,
   shapeAttr |-> a.shapeAttr, corank |-> 0, attrs |-> {},
   intent |-> "default", rcat |-> a.rcat, rbindC |-> FALSE]

asImplicitArg(dummy) ==
  IF dummy.k = "data"
    THEN [dummy EXCEPT !.shapeAttr = "none", !.attrs = {}, !.corank = 0,
                       !.intent = "default"]
    ELSE dummy

AlternateReturn ==
  [k |-> "alt", cat |-> "None", dk |-> "plain", poly |-> "no",
   knownLen |-> <<>>, assumedType |-> FALSE, rank |-> 0,
   shapeAttr |-> "none", corank |-> 0, attrs |-> {}, intent |-> "default",
   rcat |-> "None", rbindC |-> FALSE]

\* Fault variant of the loop of characterize: an alternate-return actual
\* produces no characteristic.
RECURSIVE dummiesFromActualsSkipAlt(_, _)
dummiesFromActualsSkipAlt(args, i) ==
  IF i > Len(args) THEN <<>>
  ELSE (IF args[i].k \in {"absent", "alt"} THEN <<>>
        ELSE <<asImplicitArg(FromActual(args[i]))>>)
       \o dummiesFromActualsSkipAlt(args, i + 1)

\* The loop of CallerInterface::characterize over procRef.arguments().
RECURSIVE dummiesFromActuals(_, _)
dummiesFromActuals(args, i) ==
  IF i > Len(args) THEN <<>>
  ELSE (IF args[i].k = "absent" THEN <<>>
        ELSE IF args[i].k = "alt" THEN <<AlternateReturn>>
        ELSE <<asImplicitArg(FromActual(args[i]))>>)
       \o dummiesFromActuals(args, i + 1)

\* sym is the unit's entry for the designated procedure:
\* [details, global, characteristic, hostAssoc, indirect, intrinsic].
isExternalDefinedInSameCompilationUnit(sym) ==
  sym.details = "subprogram" /\ sym.global

\* Fault variant of characterize: the definition's dummy characteristics
\* are trusted whenever the designator has an explicit interface.
characterizeFromDefinition(sym, args, hlfir) ==
  IF ~HasExplicitInterface(sym.characteristic)
    THEN [sym.characteristic EXCEPT
            !.dummyArguments = dummiesFromActuals(args, 1)]
    ELSE sym.characteristic

CallerInterface_characterize(sym, args, hlfir) ==
  IF ~HasExplicitInterface(sym.characteristic)
       \/ (hlfir /\ isExternalDefinedInSameCompilationUnit(sym)
             /\ CanBeCalledViaImplicitInterface(sym.characteristic))
    THEN [sym.characteristic EXCEPT
            !.dummyArguments = dummiesFromActuals(args, 1)]
    ELSE sym.characteristic

CallerEntities(args) ==
  [i \in 1..Len(args) |-> [present |-> args[i].k # "absent",
                           pv |-> args[i].pv]]

CallerInterface_hasAlternateReturns(args) ==
  \E i \in 1..Len(args) : args[i].k = "alt"

\* declare() up to the symbol table, then mapPassedEntities(), for a caller.
CallerDeclare(sym, args, hlfir) ==
  LET ch == CallerInterface_characterize(sym, args, hlfir)
      mapped(ifc) ==
        [characteristic |-> ch,
         ifc |-> IF ifc.fail = "none" THEN mapPassedEntities(ifc, 0)
                                      ELSE ifc]
  IN CHOOSE r \in
       {mapped(ifc) :
          ifc \in {determineInterface(
                     EmptyInterface("caller", CallerEntities(args),
                                    CallerInterface_hasAlternateReturns(args),
                                    FALSE),
                     CanBeCalledViaImplicitInterface(ch), ch, hlfir)}} :
       TRUE

\* Fault variant of verifyActualInputs: only the sizes are compared.
verifySizeOnly(c) == Len(c.ifc.inputs) = Len(c.actualInputs)

verifyActualInputs(c) ==
  IF Len(c.ifc.inputs) # Len(c.actualInputs) THEN FALSE
  ELSE \A i \in 1..Len(c.actualInputs) : c.actualInputs[i] # 0

\* ------------------------------------------------------------ callee side
CalleeEntities(dummies) ==
  [i \in 1..Len(dummies) |-> [present |-> dummies[i].k # "alt",
                              pv |-> "none"]]

CalleeInterface_hasAlternateReturns(sym) ==
  \E i \in 1..Len(sym.characteristic.dummyArguments) :
     sym.characteristic.dummyArguments[i].k = "alt"

CalleeDeclare(sym, isMain, hlfir) ==
  IF isMain
    THEN EmptyInterface("callee", <<>>, FALSE, FALSE)
    ELSE determineInterface(
           EmptyInterface("callee",
                          CalleeEntities(sym.characteristic.dummyArguments),
                          CalleeInterface_hasAlternateReturns(sym),
                          sym.hostAssoc),
           CanBeCalledViaImplicitInterface(sym.characteristic),
           sym.characteristic, hlfir)

\* ----------------------------------------------------- signature builder
SignatureBuilder_hasAlternateReturns(proc) ==
  \E i \in 1..Len(proc.dummyArguments) : proc.dummyArguments[i].k = "alt"

FakeEntities(proc) ==
  [i \in 1..Len(proc.dummyArguments) |-> [present |-> TRUE, pv |-> "none"]]

SignatureBuilder_determine(ifc, proc, forceImplicit, hlfir) ==
  determineInterface(
    [ifc EXCEPT !.entities = FakeEntities(proc),
                !.altReturns = SignatureBuilder_hasAlternateReturns(proc)],
    forceImplicit \/ CanBeCalledViaImplicitInterface(proc), proc, hlfir)

\* ---------------------------------------------------- the compilation unit
DataDummy(cat, rank, shapeAttr, attrs) ==
  [k |-> "data", cat |-> cat, dk |-> "plain", poly |-> "no",
   knownLen |-> <<>>, assumedType |-> FALSE, rank |-> rank,
   shapeAttr |-> shapeAttr, corank |-> 0, attrs |-> attrs,
   intent |-> "default", rcat |-> "None", rbindC |-> FALSE]

ProcDummy(rcat, attrs) ==
  [k |-> "proc", cat |-> "None", dk |-> "plain", poly |-> "no",
   knownLen |-> <<>>, assumedType |-> FALSE, rank |-> 0,
   shapeAttr |-> "none", corank |-> 0, attrs |-> attrs,
   intent |-> "default", rcat |-> rcat, rbindC |-> FALSE]

DataResult(cat, rank, attrs) ==
  [k |-> "data", cat |-> cat, dk |-> "plain", poly |-> "no",
   knownLen |-> <<>>, dynLen |-> FALSE, rank |-> rank, shapeAttr |-> "none",
   attrs |-> attrs]

Procedure(result, dummies, bindC, implicitInterface) ==
  [functionResult |-> result, dummyArguments |-> dummies, bindC |-> bindC,
   implicitInterface |-> implicitInterface, elemental |-> FALSE]

Actual(k, cat, pv) ==
  [k |-> k, cat |-> cat, dk |-> "plain", poly |-> "no", knownLen |-> <<>>,
   rank |-> 0, shapeAttr |-> "none", pv |-> pv, pass |-> FALSE,
   rcat |-> "None"]

Symbol(details, global, characteristic, hostAssoc, indirect) ==
  [details |-> details, global |-> global, characteristic |-> characteristic,
   hostAssoc |-> hostAssoc, indirect |-> indirect, intrinsic |-> FALSE]

IntDummy == DataDummy("Integer", 0, "none", {})
ChrDummy == DataDummy("Character", 0, "none", {})
ShapeDummy == DataDummy("Integer", 1, "AssumedShape", {})
OptDummy == DataDummy("Integer", 0, "none", {"Optional"})

\* The definitions of foo the unit may hold: external subprograms with an
\* implicit-compatible interface, one with an explicit-only interface, and
\* an internal procedure that captures host variables.
FooSymbols ==
  {Symbol("subprogram", TRUE, Procedure(<<>>, <<IntDummy>>, FALSE, FALSE),
          FALSE, FALSE),
   Symbol("subprogram", TRUE,
          Procedure(<<>>, <<ChrDummy, IntDummy>>, FALSE, FALSE), FALSE, FALSE),
   Symbol("subprogram", TRUE,
          Procedure(<<DataResult("Character", 0, {})>>, <<IntDummy>>, FALSE,
                    FALSE), FALSE, FALSE),
   Symbol("subprogram", TRUE,
          Procedure(<<>>, <<IntDummy, AlternateReturn>>, FALSE, FALSE),
          FALSE, FALSE),
   Symbol("subprogram", TRUE,
          Procedure(<<>>, <<ShapeDummy, OptDummy>>, FALSE, FALSE), FALSE,
          FALSE),
   Symbol("subprogram", FALSE, Procedure(<<>>, <<IntDummy>>, FALSE, FALSE),
          TRUE, FALSE)}

\* bar is an external procedure with no interface in this unit; p is a
\* procedure pointer with an implicit interface.
BarSymbol ==
  Symbol("procentity", TRUE, Procedure(<<>>, <<>>, FALSE, TRUE), FALSE, FALSE)

PtrSymbol ==
  Symbol("procentity", FALSE,
         Procedure(<<DataResult("Integer", 0, {})>>, <<>>, FALSE, TRUE),
         FALSE, TRUE)

Names == {"foo", "bar", "p"}

MainName == "_QQmain"

FuncNames == Names \cup {MainName}

Units == {[foo |-> f, bar |-> BarSymbol, p |-> PtrSymbol] : f \in FooSymbols}

IntActual == Actual("data", "Integer", "none")
ChrActual == Actual("data", "Character", "none")
ValActual == Actual("data", "Integer", "val")
AltActual == Actual("alt", "None", "none")
AbsentActual == Actual("absent", "None", "none")

\* The actual-argument lists of the calls of the unit.
ArgLists ==
  {<<>>, <<IntActual>>, <<ChrActual, IntActual>>, <<IntActual, AltActual>>,
   <<ValActual, ChrActual>>}

\* The actual an explicit interface's dummy receives.
ConformingActual(d) ==
  IF d.k = "alt" THEN AltActual
  ELSE [Actual(d.k, d.cat, "none") EXCEPT !.rank = d.rank, !.rcat = d.rcat]

\* The argument lists semantics accepts for a call to sym: any list when
\* the characteristics are re-derived from the actual arguments; otherwise
\* one actual per dummy of the interface, where missing trailing arguments
\* are absent.
CallArgsFrom(lists, sym, hlfir) ==
  LET ds == sym.characteristic.dummyArguments
      conf == [i \in 1..Len(ds) |-> ConformingActual(ds[i])]
  IN IF ~HasExplicitInterface(sym.characteristic)
       THEN lists
     ELSE IF CanBeCalledViaImplicitInterface(sym.characteristic)
       THEN {a \in lists : Len(a) >= Len(ds)}
              \cup {[i \in 1..Len(ds) |->
                       IF i <= Len(a) THEN a[i] ELSE AbsentActual] :
                    a \in {b \in lists : Len(b) < Len(ds)}}
     ELSE {conf}
            \cup {[conf EXCEPT ![i] = AbsentActual] :
                  i \in {j \in 1..Len(ds) : "Optional" \in ds[j].attrs}}

CallArgs(sym, hlfir) == CallArgsFrom(ArgLists, sym, hlfir)

\* The characteristics a signature is built from with no designator.
SignatureProcedures ==
  {Procedure(<<>>, <<IntDummy>>, FALSE, FALSE),
   Procedure(<<DataResult("Character", 0, {})>>, <<ChrDummy>>, FALSE, FALSE)}

Values == {1}

\* ------------------------------------------------------------------ state
VARIABLES
  opts,      \* [hlfir, ndebug]: lowering option and build mode
  unit,      \* the symbols of the compilation unit
  funcs,     \* the MLIR symbol table: mangled name -> optional FuncOp
  callers,   \* the CallerInterface objects
  callees,   \* the CalleeInterface objects
  builders,  \* the SignatureBuilder objects
  entryLog,  \* the calls of addEntryBlockAndMapArguments, in order
  status     \* "running", or how the compilation ended

vars == <<opts, unit, funcs, callers, callees, builders, entryLog, status>>

Init ==
  /\ opts \in [hlfir : BOOLEAN, ndebug : BOOLEAN]
  /\ unit \in Units
  /\ funcs = [n \in FuncNames |-> <<>>]
  /\ callers = <<>>
  /\ callees = <<>>
  /\ builders = <<>>
  /\ entryLog = <<>>
  /\ status = "running"

\* Fault variant of the constructor: the slot table is shared by the call
\* sites, so building an interface replaces the slots of the earlier ones.
NewCallerSharedSlots(name, args) ==
  \E sym \in {unit[name]} : \E d \in {CallerDeclare(sym, args, opts.hlfir)} :
     /\ status = "running"
     /\ callers' = Append([i \in 1..Len(callers) |->
                             [callers[i] EXCEPT !.ifc = d.ifc]],
                          [name |-> name, args |-> args,
                           characteristic |-> d.characteristic,
                           ifc |-> d.ifc,
                           actualInputs |-> [i \in 1..Len(d.ifc.inputs) |-> 0],
                           placed |-> {}])
     /\ IF d.ifc.fail # "none"
          THEN status' = "todo" /\ funcs' = funcs
          ELSE /\ status' = status
               /\ funcs' = IF sym.indirect THEN funcs
                           ELSE getOrCreateNamedFunction(funcs, name, d.ifc)
     /\ UNCHANGED <<opts, unit, callees, builders, entryLog>>

\* CallerInterface(procRef, converter): declare(), mapPassedEntities(),
\* actualInputs.resize(getNumFIRArguments()).
NewCaller(name, args) ==
  \E sym \in {unit[name]} : \E d \in {CallerDeclare(sym, args, opts.hlfir)} :
     /\ status = "running"
     /\ callers' = Append(callers,
                          [name |-> name, args |-> args,
                           characteristic |-> d.characteristic,
                           ifc |-> d.ifc,
                           actualInputs |-> [i \in 1..Len(d.ifc.inputs) |-> 0],
                           placed |-> {}])
     /\ IF d.ifc.fail # "none"
          THEN status' = "todo" /\ funcs' = funcs
          ELSE /\ status' = status
               /\ funcs' = IF sym.indirect THEN funcs
                           ELSE getOrCreateNamedFunction(funcs, name, d.ifc)
     /\ UNCHANGED <<opts, unit, callees, builders, entryLog>>

\* The PassedEntity k of caller c: k = 0 is the passed result.
EntityOf(c, k) ==
  IF k = 0 THEN c.ifc.passedResult[1] ELSE c.ifc.passedArguments[k]

EntityIds(c) ==
  (1..Len(c.ifc.passedArguments))
    \cup (IF Len(c.ifc.passedResult) > 0 THEN {0} ELSE {})

placeInputAccepted(c, pe) ==
  /\ Len(c.actualInputs) > pe.firArgument
  /\ pe.firArgument >= 0
  /\ pe.passBy # "AddressAndLength"

\* Fault variant of placeInput: the value is stored in every cell.
placeInputEverywhere(c, k, arg) ==
  [c EXCEPT !.actualInputs = [n \in 1..Len(@) |-> arg],
            !.placed = @ \cup {k}]

placeInput(c, k, arg) ==
  [c EXCEPT !.actualInputs[EntityOf(c, k).firArgument + 1] = arg,
            !.placed = @ \cup {k}]

PlaceInput(i, k, arg) ==
  /\ status = "running"
  /\ i \in 1..Len(callers)
  /\ k \in EntityIds(callers[i])
  /\ IF placeInputAccepted(callers[i], EntityOf(callers[i], k))
       THEN /\ callers' = [callers EXCEPT ![i] = placeInput(@, k, arg)]
            /\ status' = status
       ELSE \* the assertion fails: the entity is the split result
            IF opts.ndebug
              THEN /\ callers' =
                        [callers EXCEPT
                           ![i].actualInputs[
                              EntityOf(callers[i], k).firArgument + 1] = arg]
                   /\ status' = status
              ELSE /\ callers' = callers
                   /\ status' = "assert"
  /\ UNCHANGED <<opts, unit, funcs, callees, builders, entryLog>>

placeAddressAndLengthInputAccepted(c, pe) ==
  /\ Len(c.actualInputs) > pe.firArgument
  /\ Len(c.actualInputs) > pe.firLength
  /\ pe.firArgument >= 0
  /\ pe.firLength >= 0
  /\ pe.passBy = "AddressAndLength"

placeAddressAndLengthInput(c, k, addr, len) ==
  [c EXCEPT !.actualInputs[EntityOf(c, k).firArgument + 1] = addr,
            !.actualInputs[EntityOf(c, k).firLength + 1] = len,
            !.placed = @ \cup {k}]

PlaceAddressAndLengthInput(i, k, addr, len) ==
  /\ status = "running"
  /\ i \in 1..Len(callers)
  /\ k \in EntityIds(callers[i])
  /\ IF placeAddressAndLengthInputAccepted(callers[i],
                                           EntityOf(callers[i], k))
       THEN /\ callers' =
                 [callers EXCEPT ![i] =
                    placeAddressAndLengthInput(@, k, addr, len)]
            /\ status' = status
       ELSE \* the assertion fails: firLength is -1 and the second store is
            \* out of the cells' bounds; it crashes or hits no cell.
            IF opts.ndebug
              THEN \/ /\ callers' =
                           [callers EXCEPT
                              ![i].actualInputs[
                                 EntityOf(callers[i], k).firArgument + 1] =
                                   addr]
                      /\ status' = status
                   \/ /\ callers' = callers
                      /\ status' = "crash"
              ELSE /\ callers' = callers
                   /\ status' = "assert"
  /\ UNCHANGED <<opts, unit, funcs, callees, builders, entryLog>>

\* CalleeInterface(funit, converter): declare().
NewCallee(name) ==
  LET isMain == name = MainName
  IN \E ifc \in {CalleeDeclare(IF isMain THEN BarSymbol ELSE unit[name],
                               isMain, opts.hlfir)} :
     /\ status = "running"
     /\ IF isMain THEN TRUE ELSE unit[name].details = "subprogram"
     /\ callees' = Append(callees,
                          [name |-> name, ifc |-> ifc, entry |-> "none"])
     /\ IF ifc.fail # "none"
          THEN status' = "todo" /\ funcs' = funcs
          ELSE /\ status' = status
               /\ funcs' = getOrCreateNamedFunction(funcs, name, ifc)
     /\ UNCHANGED <<opts, unit, callers, builders, entryLog>>

\* func.addEntryBlock(): the block takes the function type's inputs.
addEntryBlock(f) == [f EXCEPT !.blocks = Append(@, f.type[1])]

LogEntry(name, i, outcome) ==
  Append(entryLog, [name |-> name, callee |-> i, outcome |-> outcome])

\* Fault variant of funcHasBlocks: the guard never sees a block.
funcNeverHasBlocks(f) == FALSE

\* !func.getBlocks().empty()
funcHasBlocks(f) == f.blocks # <<>>

AddEntryBlockAndMapArguments(i) ==
  LET c == callees[i]
      f == funcs[c.name][1]
  IN /\ status = "running"
     /\ i \in 1..Len(callees)
     /\ IF funcHasBlocks(f)
          THEN /\ status' = "fatal"
               /\ entryLog' = LogEntry(c.name, i, "fatal")
               /\ UNCHANGED <<funcs, callees>>
          ELSE /\ funcs' = [funcs EXCEPT ![c.name] = <<addEntryBlock(f)>>]
               /\ IF Len(c.ifc.inputs) # Len(f.type[1]) /\ ~opts.ndebug
                    THEN \* "function previously created with different
                         \* number of arguments"
                         /\ status' = "assert"
                         /\ entryLog' = LogEntry(c.name, i, "assert")
                         /\ callees' = callees
                    ELSE /\ status' = status
                         /\ entryLog' = LogEntry(c.name, i, "ok")
                         /\ callees' =
                              [callees EXCEPT
                                 ![i].ifc =
                                    mapPassedEntities(@, Len(f.type[1])),
                                 ![i].entry = "mapped"]
     /\ UNCHANGED <<opts, unit, callers, builders>>

\* SignatureBuilder(proc, converter, forceImplicit).
NewBuilderFromProcedure(proc, forceImplicit) ==
  \E ifc \in {SignatureBuilder_determine(
                 EmptyInterface("sig", <<>>, FALSE, FALSE), proc,
                 forceImplicit, opts.hlfir)} :
     /\ status = "running"
     /\ builders' = Append(builders,
                           [designator |-> "", proc |-> proc, ifc |-> ifc,
                            interfaceDetermined |-> FALSE, nDetermine |-> 1,
                            hasFunc |-> FALSE])
     /\ status' = IF ifc.fail # "none" THEN "todo" ELSE status
     /\ UNCHANGED <<opts, unit, funcs, callers, callees, entryLog>>

\* SignatureBuilder(procDes, converter).
NewBuilderFromDesignator(name) ==
  /\ status = "running"
  /\ builders' = Append(builders,
                        [designator |-> name,
                         proc |-> unit[name].characteristic,
                         ifc |-> EmptyInterface("sig", <<>>, FALSE, FALSE),
                         interfaceDetermined |-> FALSE, nDetermine |-> 0,
                         hasFunc |-> FALSE])
  /\ UNCHANGED <<opts, unit, funcs, callers, callees, entryLog, status>>

SignatureBuilder_getFunctionType(b) ==
  [b EXCEPT !.ifc = SignatureBuilder_determine(
                      @, b.proc,
                      b.designator # "" /\ unit[b.designator].intrinsic,
                      opts.hlfir),
            !.interfaceDetermined = TRUE,
            !.nDetermine = @ + 1]

GetFunctionType(i) ==
  /\ status = "running"
  /\ i \in 1..Len(builders)
  /\ IF builders[i].interfaceDetermined
       THEN /\ status' = "fatal"
            /\ builders' = builders
       ELSE \E b \in {SignatureBuilder_getFunctionType(builders[i])} :
               /\ builders' =
                    [builders EXCEPT ![i] =
                       IF b.ifc.fail # "none"
                         THEN [b EXCEPT !.interfaceDetermined = FALSE]
                         ELSE b]
               /\ status' = IF b.ifc.fail # "none" THEN "todo" ELSE status
  /\ UNCHANGED <<opts, unit, funcs, callers, callees, entryLog>>

\* declare() of a SignatureBuilder: the interface is determined before the
\* mangled name is asked for, which is fatal without a designator.
SignatureBuilder_declare(b) ==
  [b EXCEPT !.ifc = SignatureBuilder_determine(@, b.proc, FALSE, opts.hlfir),
            !.nDetermine = @ + 1]

GetOrCreateFuncOp(i) ==
  /\ status = "running"
  /\ i \in 1..Len(builders)
  /\ IF builders[i].interfaceDetermined
       THEN /\ status' = "fatal"
            /\ UNCHANGED <<builders, funcs>>
       ELSE \E b \in {SignatureBuilder_declare(builders[i])} :
               IF b.ifc.fail # "none"
                 THEN /\ status' = "todo"
                      /\ builders' = [builders EXCEPT ![i] = b]
                      /\ funcs' = funcs
               ELSE IF b.designator = ""
                 THEN /\ status' = "fatal"
                      /\ builders' = [builders EXCEPT ![i] = b]
                      /\ funcs' = funcs
               ELSE /\ status' = status
                    /\ builders' =
                         [builders EXCEPT
                            ![i] = [b EXCEPT !.interfaceDetermined = TRUE,
                                             !.hasFunc = TRUE]]
                    /\ funcs' = getOrCreateNamedFunction(funcs, b.designator,
                                                         b.ifc)
  /\ UNCHANGED <<opts, unit, callers, callees, entryLog>>

\* getOrDeclareFunction(proc, converter), for a directly called procedure.
GetOrDeclareFunction(name) ==
  \E ifc \in {SignatureBuilder_determine(
                 EmptyInterface("sig", <<>>, FALSE, FALSE),
                 unit[name].characteristic, FALSE, opts.hlfir)} :
     /\ status = "running"
     /\ ~unit[name].indirect
     /\ IF funcs[name] # <<>>
          THEN UNCHANGED <<funcs, status>>
          ELSE IF ifc.fail # "none"
            THEN status' = "todo" /\ funcs' = funcs
            ELSE /\ status' = status
                 /\ funcs' = getOrCreateNamedFunction(funcs, name, ifc)
     /\ UNCHANGED <<opts, unit, callers, callees, builders, entryLog>>

\* CallerInterface::getPassArgIndex: the position of the first actual
\* argument flagged as the passed object, shifted by the result's hidden
\* slots.  The optional index is a sequence of length <= 1.
getPassArgIndex(c) ==
  LET flagged == {j \in 1..Len(c.args) :
                    c.args[j].k # "absent" /\ c.args[j].pass}
      passArgIdx == (CHOOSE j \in flagged : \A m \in flagged : j <= m) - 1
      resultArg == c.ifc.passedResult
  IN IF flagged = {} THEN <<>>
     ELSE IF resultArg # <<>> /\ resultArg[1].passBy = "AddressAndLength"
       THEN <<passArgIdx + 2>>
     ELSE IF resultArg # <<>> /\ resultArg[1].passBy = "BaseAddress"
       THEN <<passArgIdx + 1>>
     ELSE <<passArgIdx>>

\* CallerInterface::getIfPassedArg: reads the cell at the passed-object
\* index; the assertion fails when the index is outside the cells or the
\* cell is not set.
GetIfPassedArg(i) ==
  /\ status = "running"
  /\ i \in 1..Len(callers)
  /\ ~opts.ndebug
  /\ \E passArg \in {getPassArgIndex(callers[i])} :
        status' = IF passArg = <<>> THEN status
                  ELSE IF Len(callers[i].actualInputs) > passArg[1]
                    THEN IF callers[i].actualInputs[passArg[1] + 1] # 0
                           THEN status ELSE "assert"
                  ELSE "assert"
  /\ UNCHANGED <<opts, unit, funcs, callers, callees, builders, entryLog>>

\* SubprogramDetails::dummyArgs() of the interface symbol: one symbol per
\* dummy argument, named here by its position, and a null pointer (0) for
\* an alternate return.
dummyArgs(sym) ==
  [i \in 1..Len(sym.characteristic.dummyArguments) |->
     IF sym.characteristic.dummyArguments[i].k = "alt" THEN 0 ELSE i]

\* CallerInterface::getInterfaceDetails: the details of the interface
\* symbol, if the procedure has one.
getInterfaceDetails(sym) ==
  IF sym.details = "subprogram" THEN <<dummyArgs(sym)>> ELSE <<>>

\* CallerInterface::getDummySymbol for the k-th entry of passedArguments.
getDummySymbol(c, sym, k) ==
  LET ifaceDetails == getInterfaceDetails(sym)
      argPosition == k - 1
  IN IF ifaceDetails = <<>> THEN 0
     ELSE IF argPosition >= Len(ifaceDetails[1]) THEN 0
     ELSE ifaceDetails[1][argPosition + 1]

\* CallerInterface::getArgumentValue: the outcome and the index of the
\* value cell returned. passedArguments is indexed by the position of the
\* symbol in dummyArgs(); an index past its end is "outOfRange".
getArgumentValue(c, sym, s) ==
  LET ifaceDetails == getInterfaceDetails(sym)
      dummies == ifaceDetails[1]
      found == {j \in 1..Len(dummies) : dummies[j] = s}
      it == CHOOSE j \in found : \A m \in found : j <= m
  IN IF ifaceDetails = <<>> THEN [outcome |-> "fatal", cell |-> emptyValue]
     ELSE IF found = {} THEN [outcome |-> "fatal", cell |-> emptyValue]
     ELSE IF it - 1 >= Len(c.ifc.passedArguments)
       THEN [outcome |-> "outOfRange", cell |-> emptyValue]
     ELSE [outcome |-> "ok",
           cell |-> c.ifc.passedArguments[it].firArgument]

GetArgumentValue(i, s) ==
  /\ status = "running"
  /\ i \in 1..Len(callers)
  /\ callers[i].ifc.fail = "none"
  /\ \E r \in {getArgumentValue(callers[i], unit[callers[i].name], s)} :
        \/ /\ r.outcome = "ok"
           /\ status' = status
        \/ /\ r.outcome = "fatal"
           /\ status' = "fatal"
        \/ \* the index is past the end of passedArguments: operator[]
           \* asserts, or reads whatever follows the vector.
           /\ r.outcome = "outOfRange"
           /\ status' \in IF opts.ndebug THEN {status, "crash"}
                                          ELSE {"assert"}
  /\ UNCHANGED <<opts, unit, funcs, callers, callees, builders, entryLog>>

GetDummySymbol(i, k) ==
  /\ status = "running"
  /\ i \in 1..Len(callers)
  /\ k \in 1..Len(callers[i].ifc.passedArguments)
  /\ getDummySymbol(callers[i], unit[callers[i].name], k) \in Nat
  /\ UNCHANGED vars

\* CallerInterface::getResultStorageType: the type the caller allocates
\* for the result, or <<>> when the assertion fails.
getResultStorageType(c) ==
  IF c.ifc.passedResult # <<>>
    THEN <<Tail(c.ifc.inputs[c.ifc.passedResult[1].firArgument + 1].type)>>
  ELSE IF c.ifc.saveResult /\ c.ifc.outputs # <<>>
    THEN <<c.ifc.outputs[1].type>>
  ELSE <<>>

\* The lowering of a call asks for the storage type when the interface
\* passes the result or asks to save it.
GetResultStorageType(i) ==
  /\ status = "running"
  /\ i \in 1..Len(callers)
  /\ callers[i].ifc.fail = "none"
  /\ ~opts.ndebug
  /\ callers[i].ifc.passedResult # <<>> \/ callers[i].ifc.saveResult
  /\ status' = IF getResultStorageType(callers[i]) = <<>> THEN "assert"
                                                          ELSE status
  /\ UNCHANGED <<opts, unit, funcs, callers, callees, builders, entryLog>>

NumObjects == Len(callers) + Len(callees) + Len(builders)

\* The definition of an internal procedure is declared before the calls to
\* it are lowered, so that its function holds the host-association
\* argument (see determineInterface).
CallLowered(name) == unit[name].hostAssoc => funcs[name] # <<>>

\* The argument lists of the calls in the lifecycle specification.
LifecycleArgs(sym, hlfir) ==
  {a \in CallArgs(sym, hlfir) :
     \A i \in 1..Len(a) : a[i].k \in {"data", "absent"} /\ a[i].pv = "none"}

Next ==
  \/ \E name \in {"foo", "bar"} :
       \E args \in LifecycleArgs(unit[name], opts.hlfir) :
         NumObjects < MaxObjects /\ CallLowered(name)
           /\ NewCaller(name, args)
  \/ \E name \in {"foo", MainName} :
       NumObjects < MaxObjects /\ NewCallee(name)
  \/ \E i \in 1..Len(callees) : AddEntryBlockAndMapArguments(i)
  \/ \E proc \in SignatureProcedures, force \in BOOLEAN :
       NumObjects < MaxObjects /\ NewBuilderFromProcedure(proc, force)
  \/ \E name \in {"foo", "bar"} :
       NumObjects < MaxObjects /\ NewBuilderFromDesignator(name)
  \/ \E i \in 1..Len(builders) : GetFunctionType(i)
  \/ \E i \in 1..Len(builders) : GetOrCreateFuncOp(i)
  \/ \E name \in {"foo", "bar"} :
       CallLowered(name) /\ GetOrDeclareFunction(name)

Spec == Init /\ [][Next]_vars

\* ------------------------------------------ the call-site specification
\* Call sites only: interfaces are built for calls to foo and their value
\* cells are filled in any order.
NextCaller ==
  \/ \E args \in LifecycleArgs(unit["foo"], opts.hlfir) :
       NumObjects < MaxObjects /\ CallLowered("foo")
         /\ NewCaller("foo", args)
  \/ \E i \in 1..Len(callers) :
       \E k \in EntityIds(callers[i]), arg \in Values : PlaceInput(i, k, arg)
  \/ \E i \in 1..Len(callers) :
       \E k \in EntityIds(callers[i]), addr \in Values, len \in Values :
         PlaceAddressAndLengthInput(i, k, addr, len)

SpecCaller == Init /\ [][NextCaller]_vars

\* ------------------------------- the signature-construction specification
\* One interface is built, on any side, for a definition of foo drawn from
\* a wider family of characteristics.
ValDummy == DataDummy("Integer", 0, "none", {"Value"})
AllocDummy == DataDummy("Real", 1, "DeferredShape", {"Allocatable"})
PlainProcDummy == ProcDummy("None", {})
ChrProcDummy == ProcDummy("Character", {})

BuildDummyLists ==
  {<<>>, <<IntDummy>>, <<ChrDummy, IntDummy>>,
   <<IntDummy, AlternateReturn, ChrDummy>>,
   <<AlternateReturn, IntDummy, AlternateReturn>>,
   <<ShapeDummy, OptDummy>>, <<ValDummy, ChrDummy>>,
   <<AllocDummy, IntDummy>>, <<PlainProcDummy, IntDummy>>,
   <<ChrProcDummy, ChrDummy, IntDummy>>}

BuildResults ==
  {<<>>, <<DataResult("Integer", 0, {})>>, <<DataResult("Character", 0, {})>>,
   <<DataResult("Derived", 0, {})>>, <<DataResult("Real", 1, {})>>}

\* Alternate returns belong to subroutines; an internal procedure (not
\* global) captures host variables and is not BIND(C).
BuildSymbols ==
  {sy \in {Symbol("subprogram", g, Procedure(r, ds, b, FALSE), ~g, FALSE) :
             r \in BuildResults, ds \in BuildDummyLists,
             g \in BOOLEAN, b \in BOOLEAN} :
     /\ sy.characteristic.functionResult # <<>>
          => \A i \in 1..Len(sy.characteristic.dummyArguments) :
                sy.characteristic.dummyArguments[i].k # "alt"
     /\ sy.hostAssoc => ~sy.characteristic.bindC}

BuildUnits ==
  {[foo |-> f, bar |-> BarSymbol, p |-> PtrSymbol] : f \in BuildSymbols}

InitBuild ==
  /\ opts \in [hlfir : BOOLEAN, ndebug : BOOLEAN]
  /\ unit \in BuildUnits
  /\ funcs = [n \in FuncNames |-> <<>>]
  /\ callers = <<>>
  /\ callees = <<>>
  /\ builders = <<>>
  /\ entryLog = <<>>
  /\ status = "running"

NextBuild ==
  \/ \E name \in Names :
       \E args \in CallArgs(unit[name], opts.hlfir) :
         NumObjects < MaxBuilt /\ CallLowered(name) /\ NewCaller(name, args)
  \/ \E name \in {"foo", MainName} :
       NumObjects < MaxBuilt /\ NewCallee(name)
  \/ \E proc \in SignatureProcedures \cup {unit["foo"].characteristic} :
       \E force \in BOOLEAN :
         NumObjects < MaxBuilt /\ NewBuilderFromProcedure(proc, force)

SpecBuild == InitBuild /\ [][NextBuild]_vars

\* ------------------------------------- the explicit-rule specification
\* One interface is built for a definition of foo with a single data-object
\* dummy drawn from the product of the types, shapes, coranks, attributes
\* and intents, with or without BIND(C).
ExplicitTypes ==
  {[cat |-> "Integer", dk |-> "plain", poly |-> "no", knownLen |-> <<>>,
    assumedType |-> FALSE]}
    \cup {[cat |-> "Character", dk |-> "plain", poly |-> "no",
           knownLen |-> l, assumedType |-> FALSE] : l \in {<<>>, <<1>>, <<8>>}}
    \cup {[cat |-> "Derived", dk |-> d, poly |-> "no", knownLen |-> <<>>,
           assumedType |-> FALSE] : d \in {"plain", "cptr", "final"}}
    \cup {[cat |-> "Derived", dk |-> "final", poly |-> "class",
           knownLen |-> <<>>, assumedType |-> FALSE],
          [cat |-> "Derived", dk |-> "plain", poly |-> "unlimited",
           knownLen |-> <<>>, assumedType |-> FALSE],
          [cat |-> "Derived", dk |-> "plain", poly |-> "unlimited",
           knownLen |-> <<>>, assumedType |-> TRUE]}

\* <<rank, shape attribute>>.
ExplicitShapes ==
  {<<0, "none">>, <<1, "none">>, <<1, "AssumedShape">>,
   <<1, "DeferredShape">>, <<0, "AssumedRank">>}

Coranks == {0, 1}

ExplicitAttrs == {"Allocatable", "Pointer", "Value", "Optional"}

Intents == {"default", "In", "Out"}

ExplicitDummies ==
  {[k |-> "data", cat |-> t.cat, dk |-> t.dk, poly |-> t.poly,
    knownLen |-> t.knownLen, assumedType |-> t.assumedType, rank |-> sh[1],
    shapeAttr |-> sh[2], corank |-> co, attrs |-> at, intent |-> in,
    rcat |-> "None", rbindC |-> FALSE] :
     t \in ExplicitTypes, sh \in ExplicitShapes, co \in Coranks,
     at \in SUBSET ExplicitAttrs, in \in Intents}

ExplicitUnits ==
  {[foo |-> Symbol("subprogram", TRUE, Procedure(<<>>, <<d>>, b, FALSE),
                   FALSE, FALSE),
    bar |-> BarSymbol, p |-> PtrSymbol] :
     d \in ExplicitDummies, b \in BOOLEAN}

InitExplicit ==
  /\ opts \in [hlfir : BOOLEAN, ndebug : {FALSE}]
  /\ unit \in ExplicitUnits
  /\ funcs = [n \in FuncNames |-> <<>>]
  /\ callers = <<>>
  /\ callees = <<>>
  /\ builders = <<>>
  /\ entryLog = <<>>
  /\ status = "running"

NextExplicit ==
  \/ \E args \in CallArgs(unit["foo"], opts.hlfir) :
       NumObjects < MaxBuilt /\ NewCaller("foo", args)
  \/ NumObjects < MaxBuilt /\ NewCallee("foo")
  \/ NumObjects < MaxBuilt
       /\ NewBuilderFromProcedure(unit["foo"].characteristic, FALSE)

SpecExplicit == InitExplicit /\ [][NextExplicit]_vars

\* ------------------------------------- the implicit-rule specification
\* One interface is built for a definition of foo whose dummies are data
\* objects a FORTRAN 77 procedure may have, alternate returns and dummy
\* procedures, or for a call to it or to the uninterfaced bar.
LogDummy == DataDummy("Logical", 0, "none", {})
ChrProcBindC == [ProcDummy("Character", {}) EXCEPT !.rbindC = TRUE]
ChrProcPointer == ProcDummy("Character", {"Pointer"})
PlainProcPointer == ProcDummy("None", {"Pointer"})

ImplicitDummyAlphabet == {IntDummy, ChrDummy, AlternateReturn, ChrProcDummy}

ImplicitRuleDummyLists ==
  {<<>>}
    \cup {<<a>> : a \in ImplicitDummyAlphabet}
    \cup {<<a, b>> : a \in ImplicitDummyAlphabet, b \in ImplicitDummyAlphabet}
    \cup {<<LogDummy>>, <<PlainProcDummy>>, <<ChrProcBindC>>,
          <<ChrProcPointer>>, <<PlainProcPointer>>,
          <<IntDummy, PlainProcPointer>>, <<ChrProcPointer, ChrDummy>>,
          <<IntDummy, LogDummy, IntDummy>>}

ImplicitRuleResults ==
  {<<>>, <<DataResult("Integer", 0, {})>>, <<DataResult("Character", 0, {})>>}

\* Alternate returns belong to subroutines; a procedure that is not global
\* is internal and captures host variables.
ImplicitRuleSymbols ==
  {sy \in {Symbol("subprogram", g, Procedure(r, ds, FALSE, FALSE), ~g, FALSE) :
             r \in ImplicitRuleResults, ds \in ImplicitRuleDummyLists,
             g \in BOOLEAN} :
     sy.characteristic.functionResult # <<>>
       => \A i \in 1..Len(sy.characteristic.dummyArguments) :
             sy.characteristic.dummyArguments[i].k # "alt"}

ImplicitRuleUnits ==
  {[foo |-> f, bar |-> BarSymbol, p |-> PtrSymbol] : f \in ImplicitRuleSymbols}

ShapeActual ==
  [Actual("data", "Integer", "none") EXCEPT !.rank = 1,
                                           !.shapeAttr = "AssumedShape"]

ChrProcActual == [Actual("proc", "None", "none") EXCEPT !.rcat = "Character"]

ImplicitActualAlphabet == {IntActual, ChrActual, ValActual, AltActual}

\* The actual-argument lists of the calls to foo.
ImplicitRuleArgLists ==
  {<<>>}
    \cup {<<a>> : a \in ImplicitActualAlphabet}
    \cup {<<a, b>> : a \in ImplicitActualAlphabet, b \in ImplicitActualAlphabet}
    \cup {<<ShapeActual>>, <<ChrProcActual, IntActual>>,
          <<IntActual, IntActual, IntActual>>}

\* The actual-argument lists of the calls to bar.
BarArgLists == {<<IntActual, ChrActual>>, <<AltActual, ShapeActual>>}

InitImplicit ==
  /\ opts \in [hlfir : BOOLEAN, ndebug : {FALSE}]
  /\ unit \in ImplicitRuleUnits
  /\ funcs = [n \in FuncNames |-> <<>>]
  /\ callers = <<>>
  /\ callees = <<>>
  /\ builders = <<>>
  /\ entryLog = <<>>
  /\ status = "running"

NextImplicit ==
  \/ \E args \in CallArgsFrom(ImplicitRuleArgLists, unit["foo"], opts.hlfir) :
       NumObjects < MaxBuilt /\ CallLowered("foo") /\ NewCaller("foo", args)
  \/ \E args \in BarArgLists :
       NumObjects < MaxBuilt /\ NewCaller("bar", args)
  \/ NumObjects < MaxBuilt /\ NewCallee("foo")
  \/ \E force \in BOOLEAN :
       NumObjects < MaxBuilt
         /\ NewBuilderFromProcedure(unit["foo"].characteristic, force)

SpecImplicit == InitImplicit /\ [][NextImplicit]_vars

\* --------------------------------------- the result-rule specification
\* One interface is built, on any side, for a definition of foo whose
\* result is drawn from the product of the result types, ranks and
\* attributes, a procedure-pointer result and no result.
ResultTypes ==
  {[cat |-> "Integer", dk |-> "plain", poly |-> "no", knownLen |-> <<>>,
    dynLen |-> FALSE],
   [cat |-> "Character", dk |-> "plain", poly |-> "no", knownLen |-> <<>>,
    dynLen |-> FALSE],
   [cat |-> "Character", dk |-> "plain", poly |-> "no", knownLen |-> <<8>>,
    dynLen |-> FALSE],
   [cat |-> "Character", dk |-> "plain", poly |-> "no", knownLen |-> <<>>,
    dynLen |-> TRUE],
   [cat |-> "Derived", dk |-> "plain", poly |-> "no", knownLen |-> <<>>,
    dynLen |-> FALSE],
   [cat |-> "Derived", dk |-> "vector", poly |-> "no", knownLen |-> <<>>,
    dynLen |-> FALSE],
   [cat |-> "Derived", dk |-> "plain", poly |-> "class", knownLen |-> <<>>,
    dynLen |-> FALSE]}

ResultAttrs == {{}, {"Allocatable"}, {"Pointer"}}

ProcPtrResult == [DataResult("None", 0, {}) EXCEPT !.k = "procptr"]

\* A polymorphic result is allocatable or a pointer.
FunctionResults ==
  {<<>>, <<ProcPtrResult>>}
    \cup {<<r>> :
            r \in {q \in {[k |-> "data", cat |-> t.cat, dk |-> t.dk,
                           poly |-> t.poly, knownLen |-> t.knownLen,
                           dynLen |-> t.dynLen, rank |-> rk,
                           shapeAttr |-> "none", attrs |-> at] :
                            t \in ResultTypes, rk \in {0, 1},
                            at \in ResultAttrs} :
                      q.poly # "no" => q.attrs # {}}}

ResultDummyLists ==
  {<<>>, <<IntDummy>>, <<ChrDummy>>, <<IntDummy, AlternateReturn>>}

\* Alternate returns belong to subroutines; an internal procedure (not
\* global) captures host variables and is not BIND(C).
ResultSymbols ==
  {sy \in {Symbol("subprogram", g, Procedure(r, ds, b, FALSE), ~g, FALSE) :
             r \in FunctionResults, ds \in ResultDummyLists,
             g \in BOOLEAN, b \in BOOLEAN} :
     /\ sy.characteristic.functionResult # <<>>
          => \A i \in 1..Len(sy.characteristic.dummyArguments) :
                sy.characteristic.dummyArguments[i].k # "alt"
     /\ sy.hostAssoc => ~sy.characteristic.bindC}

ResultUnits ==
  {[foo |-> f, bar |-> BarSymbol, p |-> PtrSymbol] : f \in ResultSymbols}

InitResult ==
  /\ opts \in [hlfir : BOOLEAN, ndebug : {FALSE}]
  /\ unit \in ResultUnits
  /\ funcs = [n \in FuncNames |-> <<>>]
  /\ callers = <<>>
  /\ callees = <<>>
  /\ builders = <<>>
  /\ entryLog = <<>>
  /\ status = "running"

NextResult ==
  \/ \E args \in CallArgs(unit["foo"], opts.hlfir) :
       NumObjects < MaxBuilt /\ CallLowered("foo") /\ NewCaller("foo", args)
  \/ NumObjects < MaxBuilt /\ NewCallee("foo")
  \/ \E force \in BOOLEAN :
       NumObjects < MaxBuilt
         /\ NewBuilderFromProcedure(unit["foo"].characteristic, force)
  \/ \E i \in 1..Len(callers) : GetResultStorageType(i)

SpecResult == InitResult /\ [][NextResult]_vars

\* ------------------------------------- the passed-object specification
\* foo is a type-bound procedure with an explicit interface; its calls
\* flag the actual argument of the polymorphic dummy as the passed object,
\* or flag none (NOPASS).
ClassDummy == [DataDummy("Derived", 0, "none", {}) EXCEPT !.poly = "class"]

PassDummyLists ==
  {<<ClassDummy>>, <<IntDummy, ClassDummy>>, <<OptDummy, ClassDummy>>,
   <<ChrDummy, ClassDummy>>, <<AlternateReturn, ClassDummy>>,
   <<ClassDummy, AlternateReturn>>, <<OptDummy, IntDummy>>}

PassResults ==
  {<<>>, <<DataResult("Integer", 0, {})>>, <<DataResult("Character", 0, {})>>,
   <<DataResult("Real", 1, {})>>}

PassSymbols ==
  {sy \in {Symbol("subprogram", FALSE, Procedure(r, ds, FALSE, FALSE), FALSE,
                  FALSE) : r \in PassResults, ds \in PassDummyLists} :
     sy.characteristic.functionResult # <<>>
       => \A i \in 1..Len(sy.characteristic.dummyArguments) :
             sy.characteristic.dummyArguments[i].k # "alt"}

PassUnits ==
  {[foo |-> f, bar |-> BarSymbol, p |-> PtrSymbol] : f \in PassSymbols}

\* The calls of foo: one actual per dummy, an optional one possibly
\* absent, the actual of the polymorphic dummy flagged or not.
PassArgLists(sym) ==
  LET ds == sym.characteristic.dummyArguments
      conf == [i \in 1..Len(ds) |-> ConformingActual(ds[i])]
      present == {conf}
                   \cup {[conf EXCEPT ![i] = AbsentActual] :
                         i \in {j \in 1..Len(ds) :
                                  "Optional" \in ds[j].attrs}}
  IN present
       \cup {[a EXCEPT ![i].pass = TRUE] :
               a \in present,
               i \in {j \in 1..Len(ds) : ds[j].poly = "class"}}

InitPass ==
  /\ opts \in [hlfir : BOOLEAN, ndebug : {FALSE}]
  /\ unit \in PassUnits
  /\ funcs = [n \in FuncNames |-> <<>>]
  /\ callers = <<>>
  /\ callees = <<>>
  /\ builders = <<>>
  /\ entryLog = <<>>
  /\ status = "running"

NextPass ==
  \/ \E args \in PassArgLists(unit["foo"]) :
       NumObjects < MaxBuilt /\ NewCaller("foo", args)
  \/ \E i \in 1..Len(callers) :
       \E k \in EntityIds(callers[i]), arg \in Values : PlaceInput(i, k, arg)
  \/ \E i \in 1..Len(callers) :
       \E k \in EntityIds(callers[i]), addr \in Values, len \in Values :
         PlaceAddressAndLengthInput(i, k, addr, len)
  \/ \E i \in 1..Len(callers) : GetIfPassedArg(i)
  \/ \E i \in 1..Len(callers) :
       \E s \in 1..Len(unit[callers[i].name].characteristic.dummyArguments) :
         GetArgumentValue(i, s)
  \/ \E i \in 1..Len(callers) :
       \E k \in 1..Len(callers[i].ifc.passedArguments) : GetDummySymbol(i, k)

SpecPass == InitPass /\ [][NextPass]_vars

\* ----------------------------------- the slot-metadata specification
\* One interface is built for a definition of foo with a single data-object
\* dummy drawn from the product of a few types and shapes with every
\* combination of the VALUE, OPTIONAL, CONTIGUOUS, TARGET and ASYNCHRONOUS
\* attributes.  CONTIGUOUS belongs to assumed-shape arrays.
MetadataAttrs == {"Contiguous", "Optional", "Target", "Asynchronous"}

AttrTypes ==
  {t \in ExplicitTypes : t.poly = "no" /\ t.dk # "final"}

AttrShapes == {<<0, "none">>, <<1, "none">>, <<1, "AssumedShape">>}

AttrDummies ==
  {d \in {[k |-> "data", cat |-> t.cat, dk |-> t.dk, poly |-> t.poly,
           knownLen |-> t.knownLen, assumedType |-> t.assumedType,
           rank |-> sh[1], shapeAttr |-> sh[2], corank |-> 0, attrs |-> at,
           intent |-> "default", rcat |-> "None", rbindC |-> FALSE] :
            t \in AttrTypes, sh \in AttrShapes,
            at \in SUBSET (MetadataAttrs \cup {"Value"})} :
     "Contiguous" \in d.attrs => d.shapeAttr = "AssumedShape"}

AttrUnits ==
  {[foo |-> Symbol("subprogram", TRUE, Procedure(<<>>, <<d>>, b, FALSE),
                   FALSE, FALSE),
    bar |-> BarSymbol, p |-> PtrSymbol] :
     d \in AttrDummies, b \in BOOLEAN}

InitAttrs ==
  /\ opts \in [hlfir : BOOLEAN, ndebug : {FALSE}]
  /\ unit \in AttrUnits
  /\ funcs = [n \in FuncNames |-> <<>>]
  /\ callers = <<>>
  /\ callees = <<>>
  /\ builders = <<>>
  /\ entryLog = <<>>
  /\ status = "running"

NextAttrs ==
  \/ \E args \in CallArgs(unit["foo"], opts.hlfir) :
       NumObjects < MaxBuilt /\ NewCaller("foo", args)
  \/ NumObjects < MaxBuilt /\ NewCallee("foo")
  \/ NumObjects < MaxBuilt
       /\ NewBuilderFromProcedure(unit["foo"].characteristic, FALSE)

SpecAttrs == InitAttrs /\ [][NextAttrs]_vars

\* ================================================================ claims
\* ------------------------------------------------ lifecycle (under Spec)

\* C1: addEntryBlockAndMapArguments succeeds at most once per physical
\* function: of the calls that target one mangled name, through the same
\* or another CalleeInterface, every call after the first ends in a fatal
\* failure, and no function ever holds more than one entry block.
C1_EntryBlockOnce ==
  /\ \A n \in FuncNames :
        funcs[n] # <<>> => Len(funcs[n][1].blocks) <= 1
  /\ \A j \in 1..Len(entryLog) : \A k \in 1..Len(entryLog) :
        (j < k /\ entryLog[j].name = entryLog[k].name)
          => entryLog[k].outcome = "fatal"

\* C1 witness: a second CalleeInterface for the same function asked for the
\* entry block after the first one got it, and the compilation ended.
C1_Witness ==
  /\ Len(entryLog) = 2
  /\ entryLog[1].name = entryLog[2].name
  /\ entryLog[1].callee # entryLog[2].callee
  /\ entryLog[1].outcome = "ok"
  /\ entryLog[2].outcome = "fatal"
  /\ status = "fatal"
  /\ Len(funcs[entryLog[1].name][1].blocks) = 1

\* C3 (as claimed): however a SignatureBuilder was constructed, its
\* interface is determined at most once over any sequence of
\* getFunctionType() and getOrCreateFuncOp() calls, so that its lists hold
\* the slots of one determination.
C3_OneShot ==
  \A i \in 1..Len(builders) :
     /\ builders[i].nDetermine <= 1
     /\ builders[i].ifc.fail = "none" /\ builders[i].nDetermine >= 1
          => Len(builders[i].ifc.inputs)
               = Len(SignatureBuilder_determine(
                       EmptyInterface("sig", <<>>, FALSE, FALSE),
                       builders[i].proc, FALSE, opts.hlfir).inputs)

\* C3 witness of the failing case: a builder constructed from
\* characteristics answered getFunctionType() without a fatal failure and
\* holds each slot twice.
C3_DeterminedTwice ==
  \E i \in 1..Len(builders) :
     /\ builders[i].designator = ""
     /\ builders[i].nDetermine = 2
     /\ builders[i].interfaceDetermined
     /\ status = "running"
     /\ Len(builders[i].ifc.inputs) = 2

\* The names for which a direct-call declare() completed.
DeclaredNames ==
  {callers[i].name : i \in {j \in 1..Len(callers) :
                              callers[j].ifc.fail = "none"
                                /\ ~unit[callers[j].name].indirect}}
    \cup {callees[i].name : i \in {j \in 1..Len(callees) :
                                     callees[j].ifc.fail = "none"}}
    \cup {builders[i].designator :
            i \in {j \in 1..Len(builders) : builders[j].hasFunc}}

\* C4: the table of physical functions is append-only and keyed by mangled
\* name: every name a declare() completed for has its function, and a step
\* never removes a function nor changes the signature or the argument
\* attributes it got at its creation.
C4_AppendOnlyTable ==
  /\ [](\A n \in DeclaredNames : Len(funcs[n]) = 1)
  /\ [][\A n \in FuncNames :
          funcs[n] # <<>>
            => /\ Len(funcs'[n]) = 1
               /\ funcs'[n][1].type = funcs[n][1].type
               /\ funcs'[n][1].argAttrs = funcs[n][1].argAttrs]_vars

\* C4 witness: two interfaces with different signatures declared the same
\* name; the table holds the first one's function.
C4_Witness ==
  /\ Len(callers) = 2
  /\ callers[1].name = callers[2].name
  /\ callers[1].ifc.fail = "none" /\ callers[2].ifc.fail = "none"
  /\ genFunctionType(callers[1].ifc) # genFunctionType(callers[2].ifc)
  /\ funcs[callers[1].name] = <<FuncOp(callers[1].ifc)>>

\* The callees whose addEntryBlockAndMapArguments() call added the block.
EntryBlockAdded ==
  {entryLog[k].callee : k \in {j \in 1..Len(entryLog) :
                                 entryLog[j].outcome # "fatal"}}

\* C5 (as claimed): after declare() and addEntryBlockAndMapArguments() the
\* entry block has as many parameters as the callee has input slots, and
\* parameter i is bound to the PassedEntity that owns input slot i, also
\* when the function had been created earlier from another slot table.
C5_EntryBlockMatchesSlots ==
  \A i \in EntryBlockAdded :
     LET c == callees[i]
         block == funcs[c.name][1].blocks[1]
     IN /\ Len(block) = Len(c.ifc.inputs)
        /\ c.entry = "mapped"
        /\ \A s \in 1..Len(c.ifc.inputs) :
              LET ph == c.ifc.inputs[s]
                  pe == IF ph.passedEntityPosition = resultEntityPosition
                          THEN c.ifc.passedResult[1]
                          ELSE c.ifc.passedArguments[
                                 ph.passedEntityPosition + 1]
              IN IF ph.property = "CharLength" THEN pe.firLength = s - 1
                                               ELSE pe.firArgument = s - 1

\* C5 witness of the failing case: the callee fetched a function a call
\* site had created with fewer arguments, and its entry block was added.
C5_FetchedOtherArity ==
  \E i \in EntryBlockAdded :
     /\ Len(callers) = 1
     /\ callers[1].name = callees[i].name
     /\ Len(funcs[callees[i].name][1].blocks[1]) < Len(callees[i].ifc.inputs)

\* The PassedEntity records of an interface that record input slot s.
Owners(ifc, s) ==
  {<<"arg", k>> : k \in {j \in 1..Len(ifc.passedArguments) :
                           ifc.passedArguments[j].firArgument = s
                             \/ ifc.passedArguments[j].firLength = s}}
    \cup {<<"result", k>> : k \in {j \in 1..Len(ifc.passedResult) :
                                     ifc.passedResult[j].firArgument = s
                                       \/ ifc.passedResult[j].firLength = s}}

SlotsOwned(ifc) ==
  /\ \A s \in 1..Len(ifc.inputs) : Cardinality(Owners(ifc, s - 1)) = 1
  /\ \A k \in 1..Len(ifc.passedArguments) :
        ifc.passedArguments[k].firArgument \in 0..(Len(ifc.inputs) - 1)
  /\ \A k \in 1..Len(ifc.passedResult) :
        ifc.passedResult[k].firArgument \in 0..(Len(ifc.inputs) - 1)

\* C9 (as claimed): once an interface is built and its entities are mapped,
\* every input slot is recorded in exactly one PassedEntity, as its
\* argument index or its length index, and every PassedEntity, the result's
\* included, has a resolved argument index.
C9_SlotsOwned ==
  /\ \A i \in 1..Len(callers) :
        callers[i].ifc.fail = "none" => SlotsOwned(callers[i].ifc)
  /\ \A i \in 1..Len(callees) :
        callees[i].entry = "mapped" => SlotsOwned(callees[i].ifc)

\* C9 witness of the failing case: a mapped callee holds a PassedEntity
\* without a block argument.
C9_UnresolvedEntity ==
  \E i \in 1..Len(callees) :
     /\ callees[i].entry = "mapped"
     /\ \E k \in 1..Len(callees[i].ifc.passedArguments) :
           callees[i].ifc.passedArguments[k].firArgument = emptyValue

\* ------------------------------------------- call sites (under SpecCaller)

\* Every value cell of the caller holds a value.
AllCellsFilled(c) ==
  /\ Len(c.actualInputs) = Len(c.ifc.inputs)
  /\ \A i \in 1..Len(c.actualInputs) : c.actualInputs[i] \in Values

\* C2: verifyActualInputs() is true exactly when there are as many value
\* cells as input slots and every cell is filled: it is false while a cell
\* is empty, and true once every passed argument and the hidden result, if
\* any, has been placed, in whatever order.
C2_VerifyIffAllPlaced ==
  \A i \in 1..Len(callers) :
     callers[i].ifc.fail = "none"
       => /\ verifyActualInputs(callers[i]) <=> AllCellsFilled(callers[i])
          /\ EntityIds(callers[i]) \subseteq callers[i].placed
               => verifyActualInputs(callers[i])

\* C2 witness: a call to a character function with one argument: the result
\* was placed as an address and a length, the argument as one value, and
\* the three cells verify.
C2_Witness ==
  \E i \in 1..Len(callers) :
     /\ Len(callers[i].ifc.passedResult) = 1
     /\ Len(callers[i].actualInputs) = 3
     /\ callers[i].placed = {0, 1}
     /\ verifyActualInputs(callers[i])
     /\ status = "running"

\* The call is to an external procedure defined in this unit whose
\* interface is compatible with an implicit one.
ImplicitSameUnitCall(c) ==
  /\ isExternalDefinedInSameCompilationUnit(unit[c.name])
  /\ CanBeCalledViaImplicitInterface(unit[c.name].characteristic)
  /\ \A i \in 1..Len(c.args) : c.args[i].k # "absent"

\* The designated procedure with no definition in sight: only its result is
\* known.
WithoutDefinition(sym) ==
  [sym EXCEPT !.details = "procentity",
              !.characteristic.implicitInterface = TRUE,
              !.characteristic.dummyArguments = <<>>]

\* The signature a call reports is that of its own actual arguments.
SignatureFromOwnActuals(c) ==
  genFunctionType(c.ifc)
    = genFunctionType(CallerDeclare(WithoutDefinition(unit[c.name]), c.args,
                                    opts.hlfir).ifc)

\* C6 (as claimed): the signature each call site reports for an
\* implicit-interface procedure of the unit is the one derived from its own
\* actual arguments.
C6_OwnActualsSignature ==
  \A i \in 1..Len(callers) :
     (callers[i].ifc.fail = "none" /\ ImplicitSameUnitCall(callers[i]))
       => SignatureFromOwnActuals(callers[i])

\* C6 (amended): building a call site's interface leaves the slots, the
\* PassedEntity records and the value cells of the interfaces built before
\* it unchanged, and, when lowering to HLFIR, the signature each call site
\* reports for an implicit-interface procedure of the unit is the one
\* derived from its own actual arguments.
C6_CallSitesIndependent ==
  /\ [](\A i \in 1..Len(callers) :
          (opts.hlfir /\ callers[i].ifc.fail = "none"
             /\ ImplicitSameUnitCall(callers[i]))
            => SignatureFromOwnActuals(callers[i]))
  /\ [][Len(callers') > Len(callers)
          => \A i \in 1..Len(callers) : callers'[i] = callers[i]]_vars

\* C6 witness: two calls to the same procedure with different argument
\* lists, the first with a filled cell, report different signatures while
\* the table holds the function of the first.
C6_Witness ==
  /\ opts.hlfir
  /\ Len(callers) = 2
  /\ ImplicitSameUnitCall(callers[1])
  /\ callers[1].args # callers[2].args
  /\ callers[1].placed # {}
  /\ callers[2].ifc.fail = "none"
  /\ genFunctionType(callers[1].ifc) # genFunctionType(callers[2].ifc)
  /\ funcs["foo"][1].type = genFunctionType(callers[1].ifc)

\* The implicit-compatible dummy-argument lists a definition may have.
ImplicitDummyLists ==
  {<<>>, <<IntDummy>>, <<ChrDummy>>, <<IntDummy, IntDummy>>,
   <<ChrDummy, IntDummy>>}

\* The definitions that differ from sym in their dummy arguments only and
\* have no more dummies than the call has actual arguments.
AlternativeDefinitions(sym, args) ==
  {[sym EXCEPT !.characteristic.dummyArguments = ds] :
     ds \in {l \in ImplicitDummyLists : Len(l) <= Len(args)}}

\* The caller-side interface does not depend on the definition's dummies.
SameForAllDefinitions(c) ==
  \A alt \in AlternativeDefinitions(unit[c.name], c.args) :
     LET d == CallerDeclare(alt, c.args, opts.hlfir)
     IN /\ d.characteristic.dummyArguments = c.characteristic.dummyArguments
        /\ d.ifc.inputs = c.ifc.inputs
        /\ d.ifc.passedArguments = c.ifc.passedArguments

\* C7 (as claimed): for a call to an implicit-interface procedure defined
\* in the unit, the caller-side dummy characteristics are always those of
\* the actual arguments: definitions that differ only in their dummy
\* arguments give the same dummy list, input slots and passing modes.
C7_AlwaysRederived ==
  \A i \in 1..Len(callers) :
     (callers[i].ifc.fail = "none" /\ ImplicitSameUnitCall(callers[i]))
       => SameForAllDefinitions(callers[i])

\* C7 (amended): the same, when lowering to HLFIR.
C7_RederivedUnderHLFIR ==
  \A i \in 1..Len(callers) :
     (opts.hlfir /\ callers[i].ifc.fail = "none"
        /\ ImplicitSameUnitCall(callers[i]))
       => SameForAllDefinitions(callers[i])

\* C7 witness: under HLFIR a call passes two arguments to a definition with
\* one dummy, and the interface has the two slots of the actual arguments.
C7_Witness ==
  \E i \in 1..Len(callers) :
     /\ opts.hlfir
     /\ ImplicitSameUnitCall(callers[i])
     /\ Len(unit["foo"].characteristic.dummyArguments) = 1
     /\ Len(callers[i].args) = 2
     /\ Len(callers[i].characteristic.dummyArguments) = 2
     /\ Len(callers[i].ifc.inputs) = 2

\* ------------------------------ signature construction (under SpecBuild)

\* The interfaces determineInterface built, each with the dummy arguments
\* it was built from.
BuiltInterfaces ==
  {[ifc |-> callers[i].ifc,
    dummies |-> callers[i].characteristic.dummyArguments] :
     i \in {j \in 1..Len(callers) : callers[j].ifc.fail = "none"}}
    \cup {[ifc |-> callees[i].ifc,
           dummies |-> unit[callees[i].name].characteristic.dummyArguments] :
            i \in {j \in 1..Len(callees) : callees[j].ifc.fail = "none"
                                            /\ callees[j].name # MainName}}
    \cup {[ifc |-> builders[i].ifc, dummies |-> builders[i].proc.dummyArguments] :
            i \in {j \in 1..Len(builders) : builders[j].ifc.fail = "none"
                                             /\ builders[j].nDetermine = 1}}

\* The input-slot indices of passed argument a (counted from 1).
SlotsOf(ifc, a) ==
  {i \in 1..Len(ifc.inputs) : ifc.inputs[i].passedEntityPosition = a - 1}

HasHostAssocSlot(ifc) == ifc.side = "callee" /\ ifc.hostAssoc

SlotsInDummyOrder(ifc) ==
  /\ \A a \in 1..Len(ifc.passedArguments) :
        \A b \in 1..Len(ifc.passedArguments) :
           a < b
             => /\ \A i \in SlotsOf(ifc, a) : \A j \in SlotsOf(ifc, b) : i < j
                /\ ifc.passedArguments[b].characteristics # 0
                     => ifc.passedArguments[a].characteristics
                          < ifc.passedArguments[b].characteristics
  /\ HasHostAssocSlot(ifc)
       => /\ Len(ifc.inputs) > 0
          /\ \A i \in 1..Len(ifc.inputs) :
                "fir.host_assoc" \in ifc.inputs[i].attributes
                  <=> i = Len(ifc.inputs)

\* C8: input-slot indices follow the dummy-argument order: of two passed
\* arguments the earlier one in the dummy list has the smaller slot
\* indices, the callee's host-association slot, when there is one, has the
\* largest index, and building the same call again gives the same slots.
C8_SlotOrder ==
  /\ \A x \in BuiltInterfaces : SlotsInDummyOrder(x.ifc)
  /\ \A i \in 1..Len(callers) :
        CallerDeclare(unit[callers[i].name], callers[i].args,
                      opts.hlfir).ifc = callers[i].ifc
  /\ \A i \in 1..Len(callees) :
        CalleeDeclare(IF callees[i].name = MainName
                        THEN BarSymbol ELSE unit[callees[i].name],
                      callees[i].name = MainName, opts.hlfir)
          = callees[i].ifc

\* C8 witness: the definition of an internal procedure with a character and
\* an integer dummy has three input slots, the host-association tuple last.
C8_Witness ==
  \E i \in 1..Len(callees) :
     /\ HasHostAssocSlot(callees[i].ifc)
     /\ callees[i].ifc.fail = "none"
     /\ Len(callees[i].ifc.inputs) = 3
     /\ callees[i].ifc.inputs[1].type = <<"boxchar">>
     /\ callees[i].ifc.inputs[3].type = <<"ref", "tuple">>
     /\ callees[i].ifc.inputs[3].passedEntityPosition = 2

PassEntityBy ==
  {"BaseAddress", "BoxChar", "Box", "MutableBox", "AddressAndLength",
   "Value", "BaseAddressValueAttribute", "CharBoxValueAttribute",
   "BoxProcRef", "CharProcTuple"}

\* C10: after determineInterface there is one PassedEntity, with a passing
\* mode and at least one input slot, per dummy argument that is not an
\* alternate-return marker, plus one for the host-association tuple; an
\* alternate-return marker gets neither a slot nor a PassedEntity.
C10_PassedEntityCount ==
  \A x \in BuiltInterfaces :
     /\ Len(x.ifc.passedArguments)
          = Cardinality({i \in 1..Len(x.dummies) : x.dummies[i].k # "alt"})
              + (IF HasHostAssocSlot(x.ifc) THEN 1 ELSE 0)
     /\ \A k \in 1..Len(x.ifc.passedArguments) :
           /\ x.ifc.passedArguments[k].passBy \in PassEntityBy
           /\ SlotsOf(x.ifc, k) # {}
     /\ \A i \in 1..Len(x.ifc.inputs) :
           x.ifc.inputs[i].passedEntityPosition
             \in {resultEntityPosition}
                   \cup (0..(Len(x.ifc.passedArguments) - 1))

\* C10 witness: an internal subroutine with an alternate return between two
\* data dummies: two PassedEntity records for the dummies and one for the
\* host-association tuple.
C10_Witness ==
  \E i \in 1..Len(callees) :
     /\ callees[i].name = "foo"
     /\ callees[i].ifc.fail = "none"
     /\ HasHostAssocSlot(callees[i].ifc)
     /\ Len(unit["foo"].characteristic.dummyArguments) = 3
     /\ unit["foo"].characteristic.dummyArguments[2].k = "alt"
     /\ Len(callees[i].ifc.passedArguments) = 3
     /\ Len(callees[i].ifc.inputs) = 3

\* ------------------------------- explicit rules (under SpecExplicit)

\* The interfaces determined once, failed ones included, each with the
\* characteristics it was determined from.
DeterminedInterfaces ==
  {[ifc |-> callers[i].ifc, proc |-> callers[i].characteristic] :
     i \in 1..Len(callers)}
    \cup {[ifc |-> callees[i].ifc, proc |-> unit[callees[i].name].characteristic] :
            i \in {j \in 1..Len(callees) : callees[j].name # MainName}}
    \cup {[ifc |-> builders[i].ifc, proc |-> builders[i].proc] :
            i \in {j \in 1..Len(builders) : builders[j].nDetermine = 1}}

\* Dummy i of x is a data object handled by handleExplicitDummy.
ExplicitPath(x, i) ==
  /\ ~CanBeCalledViaImplicitInterface(x.proc)
  /\ x.proc.dummyArguments[i].k = "data"
  /\ (x.proc.bindC
        \/ ~DummyDataObject_CanBePassedViaImplicitInterface(
              x.proc.dummyArguments[i]))

\* The PassedEntity records of dummy i (positions in passedArguments).
PassedFor(ifc, i) ==
  {k \in 1..Len(ifc.passedArguments) :
     ifc.passedArguments[k].characteristics = i}

\* Dummy i of x has exactly one PassedEntity, of mode passBy, and exactly
\* one input slot, of property prop.
PassedOnce(x, i, passBy, prop) ==
  /\ x.ifc.fail = "none"
  /\ Cardinality(PassedFor(x.ifc, i)) = 1
  /\ \A k \in PassedFor(x.ifc, i) :
        /\ x.ifc.passedArguments[k].passBy = passBy
        /\ Cardinality(SlotsOf(x.ifc, k)) = 1
        /\ \A n \in SlotsOf(x.ifc, k) : x.ifc.inputs[n].property = prop

\* The type of the input slot of dummy i.
SlotTypes(x, i) ==
  {x.ifc.inputs[n].type :
     n \in UNION {SlotsOf(x.ifc, k) : k \in PassedFor(x.ifc, i)}}

IsAllocatableOrPointer(d) == d.attrs \cap {"Allocatable", "Pointer"} # {}

\* C11 (as claimed): an explicit-interface data-object dummy with the
\* Allocatable or Pointer attribute is passed MutableBox in exactly one
\* input slot for every combination of type, shape, BIND(C), corank and
\* other attributes.
C11_AlwaysMutableBox ==
  \A x \in DeterminedInterfaces :
     \A i \in 1..Len(x.proc.dummyArguments) :
        (ExplicitPath(x, i) /\ IsAllocatableOrPointer(x.proc.dummyArguments[i]))
          => PassedOnce(x, i, "MutableBox", "MutableBox")

\* C11 (amended): such a dummy that is not a coarray is passed MutableBox
\* in exactly one input slot, a reference to a box, for every combination
\* of type, shape, BIND(C) and other attributes; a coarray dummy ends the
\* build with a not-yet-implemented failure before any rule is applied.
C11_MutableBoxUnlessCoarray ==
  \A x \in DeterminedInterfaces :
     \A i \in 1..Len(x.proc.dummyArguments) :
        (ExplicitPath(x, i) /\ IsAllocatableOrPointer(x.proc.dummyArguments[i]))
          => IF x.proc.dummyArguments[i].corank = 0
               THEN /\ PassedOnce(x, i, "MutableBox", "MutableBox")
                    /\ \A ty \in SlotTypes(x, i) :
                          ty[1] = "ref" /\ ty[2] \in {"box", "class"}
               ELSE x.ifc.fail = "todo" /\ PassedFor(x.ifc, i) = {}

\* C11 witness: the definition of a BIND(C) procedure whose dummy is an
\* allocatable, optional character with the VALUE attribute is built.
C11_Witness ==
  \E i \in 1..Len(callees) :
     /\ callees[i].name = "foo"
     /\ unit["foo"].characteristic.bindC
     /\ unit["foo"].characteristic.dummyArguments[1].cat = "Character"
     /\ unit["foo"].characteristic.dummyArguments[1].attrs
          = {"Allocatable", "Value", "Optional"}
     /\ unit["foo"].characteristic.dummyArguments[1].corank = 0
     /\ callees[i].ifc.passedArguments[1].passBy = "MutableBox"

\* Dummy i of x is a VALUE dummy that reaches the last rules of
\* handleExplicitDummy: not a coarray, not allocatable or pointer and not
\* passed by descriptor.
ValueNotByDescriptor(x, i) ==
  LET d == x.proc.dummyArguments[i]
  IN /\ ExplicitPath(x, i)
     /\ "Value" \in d.attrs
     /\ d.corank = 0
     /\ ~IsAllocatableOrPointer(d)
     /\ ~IsPassedByDescriptor(d, x.proc.bindC)

\* C12: a BIND(C) dummy with the VALUE attribute whose type is not an
\* array, not optional and not derived, and which is neither allocatable or
\* pointer nor passed by descriptor, is passed Value in one slot of property
\* Value whose type is the translated type with no reference wrapper.  An
\* interoperable character has length one.
C12_BindCValueByValue ==
  \A x \in DeterminedInterfaces :
     \A i \in 1..Len(x.proc.dummyArguments) :
        LET d == x.proc.dummyArguments[i]
        IN (/\ ValueNotByDescriptor(x, i)
            /\ x.proc.bindC
            /\ ~hasBounds(d)
            /\ "Optional" \notin d.attrs
            /\ d.cat # "Derived"
            /\ d.cat = "Character" => d.knownLen = <<1>>)
             => /\ PassedOnce(x, i, "Value", "Value")
                /\ SlotTypes(x, i) = {translateDynamicType(d)}
                /\ \A ty \in SlotTypes(x, i) : ty[1] # "ref"

\* C12 witness: the definition of a BIND(C) procedure with a character
\* VALUE dummy of length one is built: one slot of the single-character
\* type, passed Value.
C12_Witness ==
  /\ unit["foo"].characteristic.bindC
  /\ unit["foo"].characteristic.dummyArguments[1].attrs = {"Value"}
  /\ unit["foo"].characteristic.dummyArguments[1].rank = 0
  /\ unit["foo"].characteristic.dummyArguments[1].shapeAttr = "none"
  /\ unit["foo"].characteristic.dummyArguments[1].corank = 0
  /\ unit["foo"].characteristic.dummyArguments[1].cat = "Character"
  /\ unit["foo"].characteristic.dummyArguments[1].knownLen = <<1>>
  /\ Len(callees) = 1
  /\ callees[1].ifc.fail = "none"
  /\ callees[1].ifc.inputs[1].type = <<"char", "1">>
  /\ callees[1].ifc.passedArguments[1].passBy = "Value"

\* ------------------------------------ result rules (under SpecBuild)

\* x was determined with the implicit rules from characteristics that have
\* an implicit-compatible interface.
ImplicitInterface(x) == CanBeCalledViaImplicitInterface(x.proc)

\* The input slots owned by the result.
ResultSlots(ifc) ==
  {n \in 1..Len(ifc.inputs) :
     ifc.inputs[n].passedEntityPosition = resultEntityPosition}

\* C13: a character function with an implicit interface has exactly two
\* input slots owned by the result, the address and then the length, ahead
\* of the arguments; the result PassedEntity is passed AddressAndLength; the
\* only output slot is the boxchar; the save-result flag is unset.
C13_CharacterResultSlots ==
  \A x \in DeterminedInterfaces :
     (/\ ImplicitInterface(x)
      /\ x.ifc.fail = "none"
      /\ x.proc.functionResult # <<>>
      /\ x.proc.functionResult[1].cat = "Character")
       => /\ ResultSlots(x.ifc) = {1, 2}
          /\ x.ifc.inputs[1].property = "CharAddress"
          /\ x.ifc.inputs[1].type[1] = "ref"
          /\ x.ifc.inputs[2].property = "CharLength"
          /\ x.ifc.inputs[2].type = <<"index">>
          /\ Len(x.ifc.passedResult) = 1
          /\ x.ifc.passedResult[1].passBy = "AddressAndLength"
          /\ Len(x.ifc.outputs) = 1
          /\ x.ifc.outputs[1].property = "BoxChar"
          /\ x.ifc.outputs[1].type = <<"boxchar">>
          /\ ~x.ifc.saveResult

\* C13 witness: a call to a character function with a character and an
\* integer argument has four input slots and its result is mapped to the
\* first two.
C13_Witness ==
  /\ Len(callers) = 1
  /\ callers[1].ifc.fail = "none"
  /\ CanBeCalledViaImplicitInterface(callers[1].characteristic)
  /\ callers[1].characteristic.functionResult # <<>>
  /\ callers[1].characteristic.functionResult[1].cat = "Character"
  /\ Len(callers[1].ifc.inputs) = 4
  /\ callers[1].ifc.passedResult[1].firArgument = 0
  /\ callers[1].ifc.passedResult[1].firLength = 1

\* ------------------------------ implicit rules (under SpecImplicit)

\* The input cells of the actual argument at position j of call c.
CellsOfActual(c, j) ==
  UNION {SlotsOf(c.ifc, k) :
           k \in {n \in 1..Len(c.ifc.passedArguments) :
                    c.ifc.passedArguments[n].entity = j}}

\* The call has an implicit interface and its actual argument j is a data
\* object passed without %VAL or %REF to a dummy of its own type category.
PlainImplicitActual(c, j) ==
  /\ c.ifc.fail = "none"
  /\ CanBeCalledViaImplicitInterface(c.characteristic)
  /\ c.args[j].k = "data"
  /\ c.args[j].pv = "none"
  /\ \E k \in 1..Len(c.ifc.passedArguments) :
        /\ c.ifc.passedArguments[k].entity = j
        /\ c.characteristic.dummyArguments[
             c.ifc.passedArguments[k].characteristics].cat = c.args[j].cat

NumericCategories == {"Integer", "Real", "Logical"}

OnlyScalarNumericDummies(x) ==
  \A i \in 1..Len(x.proc.dummyArguments) :
     /\ x.proc.dummyArguments[i].k = "data"
     /\ x.proc.dummyArguments[i].cat \in NumericCategories
     /\ ~hasBounds(x.proc.dummyArguments[i])

HasCharacterResult(x) ==
  x.proc.functionResult # <<>> /\ x.proc.functionResult[1].cat = "Character"

\* C15 (as claimed): a procedure with an implicit interface and only scalar
\* numeric or logical dummies has as many input slots as dummy arguments,
\* every one passed BaseAddress, on every side.
C15_SlotsEqualDummies ==
  \A x \in DeterminedInterfaces :
     (ImplicitInterface(x) /\ x.ifc.fail = "none"
        /\ OnlyScalarNumericDummies(x))
       => /\ Len(x.ifc.inputs) = Len(x.proc.dummyArguments)
          /\ \A k \in 1..Len(x.ifc.passedArguments) :
                x.ifc.passedArguments[k].passBy = "BaseAddress"

\* C15 (amended): such a procedure has exactly one input slot per dummy
\* argument, passed BaseAddress unless the actual argument of the call is
\* %VAL (then Value); the input slots are these, preceded by the two
\* hidden-result slots of a character function and followed by the
\* host-association slot of an internal procedure's definition.
C15_OneSlotPerScalarDummy ==
  \A x \in DeterminedInterfaces :
     (ImplicitInterface(x) /\ x.ifc.fail = "none"
        /\ OnlyScalarNumericDummies(x))
       => /\ Len(x.ifc.inputs)
               = Len(x.proc.dummyArguments)
                   + (IF HasCharacterResult(x) THEN 2 ELSE 0)
                   + (IF HasHostAssocSlot(x.ifc) THEN 1 ELSE 0)
          /\ \A i \in 1..Len(x.proc.dummyArguments) :
                LET e == getDataObjectEntity(x.ifc, i)
                    byVal == x.ifc.side = "caller" /\ e # 0
                               /\ x.ifc.entities[e].pv = "val"
                IN /\ PassedFor(x.ifc, i) = {i}
                   /\ SlotsOf(x.ifc, i)
                        = {i + (IF HasCharacterResult(x) THEN 2 ELSE 0)}
                   /\ x.ifc.passedArguments[i].passBy
                        = (IF byVal THEN "Value" ELSE "BaseAddress")

\* C15 witness: the definition of an internal character function with three
\* scalar numeric and logical dummies has six input slots.
C15_Witness ==
  /\ Len(callees) = 1
  /\ callees[1].name = "foo"
  /\ unit["foo"].characteristic.dummyArguments
       = <<IntDummy, LogDummy, IntDummy>>
  /\ HasHostAssocSlot(callees[1].ifc)
  /\ Len(callees[1].ifc.outputs) = 1
  /\ Len(callees[1].ifc.inputs) = 6
  /\ callees[1].ifc.passedArguments[3].passBy = "BaseAddress"

\* C16 (as claimed): a dummy procedure is passed CharProcTuple, in exactly
\* one input slot of tuple type, exactly when its result is character and
\* its interface is not BIND(C); in every other case it is passed in a
\* plain BaseAddress slot.
C16_TupleIffCharacterNotBindC ==
  \A x \in DeterminedInterfaces :
     \A i \in 1..Len(x.proc.dummyArguments) :
        LET d == x.proc.dummyArguments[i]
        IN (x.ifc.fail = "none" /\ d.k = "proc")
             => IF d.rcat = "Character" /\ ~d.rbindC
                  THEN /\ PassedOnce(x, i, "CharProcTuple", "CharProcTuple")
                       /\ \A ty \in SlotTypes(x, i) : ty[1] = "tuple"
                  ELSE PassedOnce(x, i, "BaseAddress", "BaseAddress")

\* C16 witness: the definition of a procedure whose dummy procedure is a
\* BIND(C) character function is built, and the dummy procedure is passed
\* as a tuple.
C16_BindCPassedAsTuple ==
  /\ Len(callees) = 1
  /\ callees[1].ifc.fail = "none"
  /\ unit["foo"].characteristic.dummyArguments = <<ChrProcBindC>>
  /\ callees[1].ifc.passedArguments[1].passBy = "CharProcTuple"
  /\ callees[1].ifc.inputs[1].type[1] = "tuple"

\* C17: an explicit-interface data-object dummy that is INTENT(OUT) and
\* Allocatable or Pointer, of any type, a finalizable derived type
\* included, is passed MutableBox, and its PassedEntity answers: no
\* finalization on entry, not read by the call, may be modified by the
\* call.  The dummy is not a coarray and has no VALUE attribute, which no
\* valid INTENT(OUT) allocatable or pointer dummy has.
C17_IntentOutAllocatable ==
  \A x \in DeterminedInterfaces :
     \A i \in 1..Len(x.proc.dummyArguments) :
        LET d == x.proc.dummyArguments[i]
        IN (/\ ExplicitPath(x, i)
            /\ IsAllocatableOrPointer(d)
            /\ d.intent = "Out"
            /\ d.corank = 0
            /\ "Value" \notin d.attrs)
             => /\ PassedOnce(x, i, "MutableBox", "MutableBox")
                /\ \A k \in PassedFor(x.ifc, i) :
                      LET pe == x.ifc.passedArguments[k]
                      IN /\ ~mayRequireIntentoutFinalization(
                                pe, x.proc.dummyArguments)
                         /\ ~mayBeReadByCall(pe, x.proc.dummyArguments)
                         /\ mayBeModifiedByCall(pe, x.proc.dummyArguments)

\* C17 witness: a call of a procedure whose dummy is an allocatable
\* INTENT(OUT) object of a finalizable derived type is lowered, and the
\* dummy is passed MutableBox.
C17_Witness ==
  \E i \in 1..Len(callers) :
     LET d == callers[i].characteristic.dummyArguments[1]
     IN /\ d.cat = "Derived" /\ d.dk = "final" /\ d.poly = "no"
        /\ d.attrs = {"Allocatable"}
        /\ d.intent = "Out"
        /\ d.corank = 0
        /\ callers[i].ifc.fail = "none"
        /\ callers[i].ifc.passedArguments[1].passBy = "MutableBox"
        /\ callers[i].ifc.passedArguments[1].characteristics = 1

\* The caller c re-derived the dummy characteristics from the call.
Rederived(c) ==
  LET sym == unit[c.name]
  IN \/ ~HasExplicitInterface(sym.characteristic)
     \/ /\ opts.hlfir
        /\ isExternalDefinedInSameCompilationUnit(sym)
        /\ CanBeCalledViaImplicitInterface(sym.characteristic)

\* The positions of the actual arguments that are present, in order.
PresentPositions(args) ==
  SelectSeq([j \in 1..Len(args) |-> j], LAMBDA j : args[j].k # "absent")

\* C18: a caller that re-derives the dummy characteristics has one
\* characteristic per present actual argument, in argument order: an
\* alternate-return marker for an alternate-return actual, a data-object
\* dummy of the actual's type and rank with every dummy attribute dropped
\* for a data actual; and every PassedEntity built from the i-th
\* characteristic holds the actual argument it was derived from, also when
\* actual arguments of the call are absent.
C18_RederivedPairing ==
  \A n \in 1..Len(callers) :
     LET c == callers[n]
         ds == c.characteristic.dummyArguments
         p == PresentPositions(c.args)
     IN Rederived(c)
          => /\ Len(ds) = Len(p)
             /\ \A i \in 1..Len(ds) :
                   LET a == c.args[p[i]]
                   IN /\ ds[i].k = a.k
                      /\ a.k = "alt" => ds[i] = AlternateReturn
                      /\ a.k = "data"
                           => /\ ds[i].cat = a.cat
                              /\ ds[i].rank = a.rank
                              /\ ds[i].knownLen = a.knownLen
                              /\ ds[i].attrs = {}
                              /\ ds[i].intent = "default"
                              /\ ds[i].shapeAttr = "none"
                              /\ ds[i].corank = 0
                      /\ (c.ifc.fail = "none" /\ a.k # "alt")
                           => PassedFor(c.ifc, i) # {}
                      /\ \A k \in PassedFor(c.ifc, i) :
                            c.ifc.passedArguments[k].entity = p[i]

\* C18 witness: a call with an alternate return, a character actual and an
\* absent trailing argument re-derives two characteristics, and the
\* character actual is held by the PassedEntity of the second.
C18_Witness ==
  \E n \in 1..Len(callers) :
     LET c == callers[n]
     IN /\ Rederived(c)
        /\ Len(c.args) = 3
        /\ c.args[1].k = "alt"
        /\ c.args[2].k = "data" /\ c.args[2].cat = "Character"
        /\ c.args[3].k = "absent"
        /\ Len(c.characteristic.dummyArguments) = 2
        /\ c.ifc.fail = "none"
        /\ Len(c.ifc.passedArguments) = 1
        /\ c.ifc.passedArguments[1].characteristics = 2
        /\ c.ifc.passedArguments[1].entity = 2

\* Dummy i of x is a VALUE dummy that reaches the last branch of
\* handleExplicitDummy: not character either.
ValueLastBranch(x, i) ==
  ValueNotByDescriptor(x, i) /\ x.proc.dummyArguments[i].cat # "Character"

\* The condition of the by-value rule.
PassedByValueRule(x, d) ==
  \/ x.proc.bindC
  \/ /\ ~hasBounds(d)
     /\ "Optional" \notin d.attrs
     /\ (d.cat # "Derived" \/ d.dk = "cptr")

IsScalarCptr(d) == d.cat = "Derived" /\ d.dk = "cptr" /\ ~hasBounds(d)

\* C19 (as claimed): a VALUE dummy that is not allocatable or pointer, not
\* passed by descriptor and not character is passed Value exactly when the
\* interface is BIND(C) or the dummy is not an array, not optional and
\* either not derived or the pointer carrier; otherwise it is passed
\* BaseAddressValueAttribute in a reference slot; a Value slot of the
\* pointer-carrier type has the type of the carrier's single field.
C19_ValueSlotIsCarrierField ==
  \A x \in DeterminedInterfaces :
     \A i \in 1..Len(x.proc.dummyArguments) :
        LET d == x.proc.dummyArguments[i]
        IN ValueLastBranch(x, i)
             => IF PassedByValueRule(x, d)
                  THEN /\ PassedOnce(x, i, "Value", "Value")
                       /\ IsScalarCptr(d) => SlotTypes(x, i) = {<<"i64">>}
                  ELSE /\ PassedOnce(x, i, "BaseAddressValueAttribute",
                                     "BaseAddress")
                       /\ \A ty \in SlotTypes(x, i) : ty[1] = "ref"

\* C19 (amended): the same rule, where the Value slot of a scalar
\* pointer-carrier dummy is a reference to the type of the carrier's single
\* field, and every other Value slot has the dummy's own type with no
\* reference wrapper.
C19_ValueSlotIsRefToCarrierField ==
  \A x \in DeterminedInterfaces :
     \A i \in 1..Len(x.proc.dummyArguments) :
        LET d == x.proc.dummyArguments[i]
        IN ValueLastBranch(x, i)
             => IF PassedByValueRule(x, d)
                  THEN /\ PassedOnce(x, i, "Value", "Value")
                       /\ IF IsScalarCptr(d)
                            THEN SlotTypes(x, i) = {<<"ref", "i64">>}
                            ELSE \A ty \in SlotTypes(x, i) : ty[1] # "ref"
                  ELSE /\ PassedOnce(x, i, "BaseAddressValueAttribute",
                                     "BaseAddress")
                       /\ \A ty \in SlotTypes(x, i) : ty[1] = "ref"

\* C19 witness: a call of a procedure that is not BIND(C) and whose dummy
\* is a scalar pointer carrier with the VALUE attribute is lowered, and the
\* dummy is passed Value.
C19_Witness ==
  \E n \in 1..Len(callers) :
     LET d == callers[n].characteristic.dummyArguments[1]
     IN /\ ~callers[n].characteristic.bindC
        /\ IsScalarCptr(d)
        /\ d.attrs = {"Value"}
        /\ d.corank = 0
        /\ callers[n].ifc.fail = "none"
        /\ callers[n].ifc.passedArguments[1].passBy = "Value"
        /\ callers[n].ifc.inputs[1].property = "Value"

\* Dummy i of x is a character dummy that reaches the character branch of
\* handleExplicitDummy.
CharacterBranch(x, i) ==
  LET d == x.proc.dummyArguments[i]
  IN /\ ExplicitPath(x, i)
     /\ d.cat = "Character"
     /\ d.corank = 0
     /\ ~IsAllocatableOrPointer(d)
     /\ ~IsPassedByDescriptor(d, x.proc.bindC)

\* C20 (as claimed): an explicit-path character dummy that is neither
\* allocatable or pointer nor passed by descriptor is passed Value in one
\* single-character slot when it has VALUE and the interface is BIND(C),
\* and is passed BoxChar in one boxchar slot in every other case, VALUE
\* without BIND(C) included.
C20_BoxCharInEveryOtherCase ==
  \A x \in DeterminedInterfaces :
     \A i \in 1..Len(x.proc.dummyArguments) :
        LET d == x.proc.dummyArguments[i]
        IN CharacterBranch(x, i)
             => IF "Value" \in d.attrs /\ x.proc.bindC
                  THEN /\ PassedOnce(x, i, "Value", "Value")
                       /\ SlotTypes(x, i) = {<<"char", "1">>}
                  ELSE /\ PassedOnce(x, i, "BoxChar", "BoxChar")
                       /\ SlotTypes(x, i) = {<<"boxchar">>}

\* C20 (amended): such a dummy is passed Value in one single-character
\* slot when it has VALUE and the interface is BIND(C); in every other case
\* it has one boxchar slot of property BoxChar, and its passing mode is
\* CharBoxValueAttribute when it has VALUE and BoxChar when it has not.
C20_BoxCharModeFollowsValue ==
  \A x \in DeterminedInterfaces :
     \A i \in 1..Len(x.proc.dummyArguments) :
        LET d == x.proc.dummyArguments[i]
        IN CharacterBranch(x, i)
             => IF "Value" \in d.attrs /\ x.proc.bindC
                  THEN /\ PassedOnce(x, i, "Value", "Value")
                       /\ SlotTypes(x, i) = {<<"char", "1">>}
                  ELSE /\ PassedOnce(x, i,
                                     IF "Value" \in d.attrs
                                       THEN "CharBoxValueAttribute"
                                       ELSE "BoxChar",
                                     "BoxChar")
                       /\ SlotTypes(x, i) = {<<"boxchar">>}

\* C20 witness: the definition of a procedure that is not BIND(C) and
\* whose dummy is a character with the VALUE attribute is built: one
\* boxchar slot, passed CharBoxValueAttribute.
C20_Witness ==
  /\ Len(callees) = 1
  /\ callees[1].ifc.fail = "none"
  /\ ~unit["foo"].characteristic.bindC
  /\ unit["foo"].characteristic.dummyArguments[1].cat = "Character"
  /\ unit["foo"].characteristic.dummyArguments[1].attrs = {"Value"}
  /\ callees[1].ifc.passedArguments[1].passBy = "CharBoxValueAttribute"
  /\ callees[1].ifc.inputs[1].type = <<"boxchar">>

\* ------------------------------- result rules (under SpecResult)

\* The function result of x, when it has one.
HasResult(x) == x.proc.functionResult # <<>>

FunctionResultOf(x) == x.proc.functionResult[1]

\* The output list of x is one Value slot of type ty.
OneValueOutput(x, ty) ==
  /\ Len(x.ifc.outputs) = 1
  /\ x.ifc.outputs[1].property = "Value"
  /\ x.ifc.outputs[1].type = ty

\* The result of x is a derived type handled by the implicit result rule.
ImplicitDerivedResult(x) ==
  /\ HasResult(x)
  /\ x.ifc.fail = "none"
  /\ CanBeReturnedViaImplicitInterface(FunctionResultOf(x))
  /\ FunctionResultOf(x).cat = "Derived"

\* C21 (as claimed): under the implicit result rule every derived-type
\* result yields exactly one Value output slot of its physical type and
\* sets the save-result flag.
C21_DerivedAlwaysSaved ==
  \A x \in DeterminedInterfaces :
     ImplicitDerivedResult(x)
       => /\ OneValueOutput(x, translateDynamicType(FunctionResultOf(x)))
          /\ x.ifc.saveResult

\* C21 (amended): every such result yields exactly one Value output slot of
\* its physical type and no result PassedEntity; the save-result flag is
\* set exactly when the derived type is not a vector type.
C21_DerivedSavedUnlessVector ==
  \A x \in DeterminedInterfaces :
     ImplicitDerivedResult(x)
       => /\ OneValueOutput(x, translateDynamicType(FunctionResultOf(x)))
          /\ x.ifc.passedResult = <<>>
          /\ x.ifc.saveResult <=> FunctionResultOf(x).dk # "vector"

\* C21 witness: a call of a function whose result is a scalar vector type
\* is lowered: one Value output, and the save-result flag is unset.
C21_Witness ==
  /\ Len(callers) = 1
  /\ callers[1].ifc.fail = "none"
  /\ callers[1].characteristic.functionResult # <<>>
  /\ callers[1].characteristic.functionResult[1].dk = "vector"
  /\ callers[1].characteristic.functionResult[1].rank = 0
  /\ callers[1].characteristic.functionResult[1].attrs = {}
  /\ Len(callers[1].ifc.outputs) = 1
  /\ ~callers[1].ifc.saveResult

\* The interfaces built by the explicit builder for a call or a definition
\* whose result cannot use the implicit representation.
ExplicitResultInterfaces ==
  {x \in {[ifc |-> callers[i].ifc, proc |-> callers[i].characteristic] :
            i \in 1..Len(callers)}
          \cup {[ifc |-> callees[i].ifc,
                 proc |-> unit[callees[i].name].characteristic] :
                  i \in {j \in 1..Len(callees) :
                           callees[j].name # MainName}} :
     /\ HasResult(x)
     /\ x.ifc.fail = "none"
     /\ ~CanBeReturnedViaImplicitInterface(FunctionResultOf(x))}

\* The physical type of a data result: the element type, wrapped in the
\* array shape if ranked, then in the allocatable or pointer qualifier and
\* its descriptor.
PhysicalResultType(r) ==
  LET elem == translateDynamicType(r)
      shaped == IF r.rank > 0 THEN <<"array">> \o elem ELSE elem
      desc == IF r.poly # "no" THEN "class" ELSE "box"
  IN IF "Allocatable" \in r.attrs THEN <<desc, "heap">> \o shaped
     ELSE IF "Pointer" \in r.attrs THEN <<desc, "ptr">> \o shaped
     ELSE shaped

\* The hidden-argument character convention.
CharacterConvention(ifc) ==
  /\ ResultSlots(ifc) = {1, 2}
  /\ ifc.inputs[1].property = "CharAddress"
  /\ ifc.inputs[2].property = "CharLength"
  /\ Len(ifc.passedResult) = 1
  /\ ifc.passedResult[1].passBy = "AddressAndLength"
  /\ Len(ifc.outputs) = 1
  /\ ifc.outputs[1].property = "BoxChar"
  /\ ifc.outputs[1].type = <<"boxchar">>
  /\ ~ifc.saveResult

\* C22: for a result that cannot use the implicit representation, a
\* procedure pointer gives one Value output and leaves the save-result flag
\* unset; any other result whose physical type is a character type uses
\* the hidden-argument character convention (two input slots, boxchar
\* output, flag unset); every other result gives exactly one Value output
\* slot of the physical type, no result input slot, and sets the flag.
C22_ExplicitResult ==
  \A x \in ExplicitResultInterfaces :
     LET r == FunctionResultOf(x)
     IN IF r.k = "procptr"
          THEN /\ Len(x.ifc.outputs) = 1
               /\ x.ifc.outputs[1].property = "Value"
               /\ x.ifc.outputs[1].type[1] = "boxproc"
               /\ ~x.ifc.saveResult
               /\ ResultSlots(x.ifc) = {}
        ELSE IF PhysicalResultType(r)[1] = "char"
          THEN CharacterConvention(x.ifc)
        ELSE /\ OneValueOutput(x, PhysicalResultType(r))
             /\ x.ifc.saveResult
             /\ x.ifc.passedResult = <<>>
             /\ ResultSlots(x.ifc) = {}

\* C22 witness: the definition of a function whose result is a scalar
\* character of non-constant length is built with the hidden-argument
\* convention.
C22_Witness ==
  /\ Len(callees) = 1
  /\ callees[1].ifc.fail = "none"
  /\ unit["foo"].characteristic.functionResult # <<>>
  /\ unit["foo"].characteristic.functionResult[1].dynLen
  /\ unit["foo"].characteristic.functionResult[1].rank = 0
  /\ unit["foo"].characteristic.functionResult[1].attrs = {}
  /\ Len(callees[1].ifc.passedResult) = 1
  /\ ~callees[1].ifc.saveResult

\* ------------------------------ the passed object (under SpecPass)

\* The positions of the actual arguments of call c flagged as the passed
\* object.
FlaggedActuals(c) ==
  {j \in 1..Len(c.args) : c.args[j].k # "absent" /\ c.args[j].pass}

\* C23 (as claimed): getPassArgIndex returns nothing when no actual
\* argument is flagged as the passed object, and otherwise the input-slot
\* index recorded in the PassedEntity of the flagged argument, for every
\* call shape: with or without hidden result slots, with absent or
\* alternate-return arguments before the passed object.
C23_PassArgIndexIsSlotIndex ==
  \A n \in 1..Len(callers) :
     LET c == callers[n]
     IN c.ifc.fail = "none"
          => IF FlaggedActuals(c) = {}
               THEN getPassArgIndex(c) = <<>>
               ELSE \E j \in FlaggedActuals(c) :
                      \E k \in 1..Len(c.ifc.passedArguments) :
                         /\ c.ifc.passedArguments[k].entity = j
                         /\ getPassArgIndex(c)
                              = <<c.ifc.passedArguments[k].firArgument>>

\* C23 witness: in a lowered call whose first argument is an alternate
\* return and whose second is the passed object, the passed object owns
\* input slot 0 and getPassArgIndex returns 1, an index past the value
\* cells.
C23_IndexPastAlternateReturn ==
  \E n \in 1..Len(callers) :
     LET c == callers[n]
     IN /\ c.ifc.fail = "none"
        /\ Len(c.args) = 2
        /\ c.args[1].k = "alt"
        /\ c.args[2].pass
        /\ Len(c.ifc.passedArguments) = 1
        /\ c.ifc.passedArguments[1].entity = 2
        /\ c.ifc.passedArguments[1].firArgument = 0
        /\ getPassArgIndex(c) = <<1>>
        /\ Len(c.actualInputs) = 1

\* ------------------------------ slot metadata (under SpecAttrs)

\* The characteristics of x where the attributes in m are removed from
\* dummy i.
WithoutAttrs(x, i, m) ==
  [x.proc EXCEPT !.dummyArguments[i].attrs = @ \ m]

\* The interface the builder of x builds for the characteristics proc.
BuiltFor(x, proc) ==
  determineInterface(
    EmptyInterface(x.ifc.side, x.ifc.entities, x.ifc.altReturns,
                   x.ifc.hostAssoc),
    CanBeCalledViaImplicitInterface(proc), proc, opts.hlfir)

\* Two interfaces differ at most in the attributes of their slots.
SameUpToMetadata(a, b) ==
  /\ a.fail = b.fail
  /\ Len(a.inputs) = Len(b.inputs)
  /\ \A n \in 1..Len(a.inputs) :
        /\ a.inputs[n].property = b.inputs[n].property
        /\ a.inputs[n].type = b.inputs[n].type
        /\ a.inputs[n].passedEntityPosition = b.inputs[n].passedEntityPosition
  /\ Len(a.passedArguments) = Len(b.passedArguments)
  /\ \A k \in 1..Len(a.passedArguments) :
        a.passedArguments[k].passBy = b.passedArguments[k].passBy

\* C24 (as claimed): the passing mode and the slots of a data-object dummy
\* do not depend on its Contiguous, Optional, Target and Asynchronous
\* attributes: removing any of them leaves the passing mode, the number of
\* input slots, their properties and their types unchanged.
C24_MetadataOnly ==
  \A x \in DeterminedInterfaces :
     \A i \in 1..Len(x.proc.dummyArguments) :
        x.proc.dummyArguments[i].k = "data"
          => \A m \in SUBSET MetadataAttrs :
                SameUpToMetadata(x.ifc, BuiltFor(x, WithoutAttrs(x, i, m)))

\* C24 (amended): the same holds for Contiguous, Target and Asynchronous,
\* and for Optional on a dummy without the VALUE attribute; on a VALUE
\* dummy the Optional attribute takes part in the choice between Value and
\* BaseAddressValueAttribute.
C24_MetadataOnlyUnlessOptionalValue ==
  \A x \in DeterminedInterfaces :
     \A i \in 1..Len(x.proc.dummyArguments) :
        LET d == x.proc.dummyArguments[i]
        IN d.k = "data"
             => \A m \in SUBSET MetadataAttrs :
                   ("Value" \in d.attrs => "Optional" \notin m)
                     => SameUpToMetadata(x.ifc,
                                         BuiltFor(x, WithoutAttrs(x, i, m)))

\* C24 witness: the definition of a procedure whose dummy is an optional,
\* contiguous, asynchronous target assumed-shape array is built: one Box
\* slot that carries the four attributes as metadata.
C24_Witness ==
  /\ Len(callees) = 1
  /\ callees[1].ifc.fail = "none"
  /\ unit["foo"].characteristic.dummyArguments[1].attrs = MetadataAttrs
  /\ Len(callees[1].ifc.inputs) = 1
  /\ callees[1].ifc.passedArguments[1].passBy = "Box"
  /\ {"fir.optional", "fir.contiguous", "fir.target", "fir.asynchronous"}
       \subseteq callees[1].ifc.inputs[1].attributes

\* ------------------------------ coarray dummies (under SpecExplicit)

\* C25: a data-object dummy with corank > 0 ends the interface build with
\* a not-yet-implemented failure, on every side and whatever its type,
\* shape, intent, BIND(C) flag and other attributes; no input slot and no
\* PassedEntity is appended for it, and the compilation ends.
C25_CoarrayIsTodo ==
  \A x \in DeterminedInterfaces :
     \A i \in 1..Len(x.proc.dummyArguments) :
        LET d == x.proc.dummyArguments[i]
        IN (d.k = "data" /\ d.corank > 0)
             => /\ x.ifc.fail = "todo"
                /\ status = "todo"
                /\ PassedFor(x.ifc, i) = {}
                /\ \A n \in 1..Len(x.ifc.inputs) :
                      x.ifc.inputs[n].passedEntityPosition # i - 1

\* C25 witness: a call of a BIND(C) procedure whose dummy is a coarray of
\* integer type with no other attribute is lowered and fails.
C25_Witness ==
  /\ Len(callers) = 1
  /\ callers[1].characteristic.bindC
  /\ callers[1].characteristic.dummyArguments[1].corank > 0
  /\ callers[1].characteristic.dummyArguments[1].cat = "Integer"
  /\ callers[1].characteristic.dummyArguments[1].attrs = {}
  /\ callers[1].ifc.fail = "todo"
  /\ callers[1].ifc.inputs = <<>>
  /\ status = "todo"

\* ------------------------------ host association (under Spec)

\* The last input slot of ifc is the host-association tuple: the only slot
\* with the host-association attribute, owned by the last PassedEntity,
\* which has no characteristics and no entity.
HostTupleIsLast(ifc) ==
  LET n == Len(ifc.inputs)
      m == Len(ifc.passedArguments)
  IN /\ n > 0 /\ m > 0
     /\ ifc.inputs[n].type = <<"ref", "tuple">>
     /\ ifc.inputs[n].property = "BaseAddress"
     /\ ifc.inputs[n].passedEntityPosition = m - 1
     /\ \A i \in 1..n : "fir.host_assoc" \in ifc.inputs[i].attributes
                            <=> i = n
     /\ ifc.passedArguments[m].passBy = "BaseAddress"
     /\ ifc.passedArguments[m].characteristics = 0
     /\ ifc.passedArguments[m].entity = 0
     /\ SlotsOf(ifc, m) = {n}

NoHostTuple(ifc) ==
  \A i \in 1..Len(ifc.inputs) :
     /\ "fir.host_assoc" \notin ifc.inputs[i].attributes
     /\ ifc.inputs[i].type # <<"ref", "tuple">>

\* The interface the builder alone produces for the definition of sym.
BuilderOnly(c, sym) ==
  determineInterface(
    EmptyInterface("callee", c.ifc.entities, c.ifc.altReturns, FALSE),
    CanBeCalledViaImplicitInterface(sym.characteristic), sym.characteristic,
    opts.hlfir)

CellsWritten(c, d) ==
  {n \in 1..Len(c.actualInputs) : d.actualInputs[n] # c.actualInputs[n]}

\* The value cells an entity of call site c may be placed in, by its kind.
CellsOfEntity(c, k) ==
  IF EntityOf(c, k).passBy = "AddressAndLength"
    THEN {EntityOf(c, k).firArgument + 1, EntityOf(c, k).firLength + 1}
    ELSE {EntityOf(c, k).firArgument + 1}

\* A step that changes call site i is one placement, made for an entity k
\* by the operation of k's kind: it fills each cell of k with a value,
\* changes no other cell and leaves the slot lists and the PassedEntity
\* records alone.
PlacedByKind(i) ==
  LET c == callers[i]
      d == callers'[i]
  IN \E k \in EntityIds(c) :
        /\ d.ifc = c.ifc
        /\ d.name = c.name /\ d.args = c.args
        /\ d.characteristic = c.characteristic
        /\ Len(d.actualInputs) = Len(c.actualInputs)
        /\ d.placed = c.placed \cup {k}
        /\ CellsWritten(c, d) \subseteq CellsOfEntity(c, k)
        /\ \A n \in CellsOfEntity(c, k) : d.actualInputs[n] \in Values

PlacementFrame ==
  /\ \A i \in 1..Len(callers) : callers'[i] # callers[i] => PlacedByKind(i)
  /\ status' # "running" => callers' = callers
  /\ Len(callers') = Len(callers)
       => UNCHANGED <<opts, unit, funcs, callees, builders, entryLog>>

ImplicitCompatibleData(proc) ==
  /\ ~proc.bindC
  /\ \A i \in 1..Len(proc.functionResult) :
        CanBeReturnedViaImplicitInterface(proc.functionResult[i])
  /\ \A i \in 1..Len(proc.dummyArguments) :
        proc.dummyArguments[i].k = "data"
          => DummyDataObject_CanBePassedViaImplicitInterface(
               proc.dummyArguments[i])

\* The interface of x as the builder chosen by isImplicit produces it.
BuiltBy(x, isImplicit) ==
  determineInterface(
    EmptyInterface(x.ifc.side, x.ifc.entities, x.ifc.altReturns,
                   x.ifc.hostAssoc),
    isImplicit, x.proc, opts.hlfir)

PassModes(ifc) ==
  [k \in 1..Len(ifc.passedArguments) |-> ifc.passedArguments[k].passBy]

SameInterface(a, b) ==
  /\ a.fail = b.fail
  /\ a.inputs = b.inputs
  /\ a.outputs = b.outputs
  /\ PassModes(a) = PassModes(b)
  /\ a.passedResult = b.passedResult
  /\ a.saveResult = b.saveResult

\* C28: for a procedure that is not BIND(C), whose result can be returned
\* via an implicit interface and whose data-object dummies can be passed
\* via one, the explicit builder and the implicit builder produce the same
\* input slots, output slots, argument passing modes, result PassedEntity
\* and save-result flag; the interface the program built has those slots.
C28_BuildersAgree ==
  \A x \in DeterminedInterfaces :
     ImplicitCompatibleData(x.proc)
       => /\ SameInterface(BuiltBy(x, FALSE), BuiltBy(x, TRUE))
          /\ x.ifc.inputs = BuiltBy(x, FALSE).inputs
          /\ x.ifc.outputs = BuiltBy(x, FALSE).outputs
          /\ x.ifc.saveResult = BuiltBy(x, FALSE).saveResult

\* C28 witness: the explicit builder ran for a function with an integer
\* dummy and a procedure-pointer dummy, which no implicit interface can
\* call, and built the two input slots and the output slot.
C28_Witness ==
  \E x \in DeterminedInterfaces :
     /\ ImplicitCompatibleData(x.proc)
     /\ ~CanBeCalledViaImplicitInterface(x.proc)
     /\ x.ifc.fail = "none"
     /\ Len(x.proc.functionResult) = 1
     /\ Len(x.proc.dummyArguments) = 2
     /\ x.proc.dummyArguments[1].k = "data"
     /\ Len(x.ifc.inputs) >= 2
     /\ Len(x.ifc.outputs) = 1

\* ------------------------------ dummy symbols (under SpecPass)

\* The position of the dummy argument for which the k-th entry of
\* passedArguments of call site c was built: the builders append one entry
\* per dummy that is not an alternate return, in order.
DummyOfEntry(c, k) ==
  LET ds == c.characteristic.dummyArguments
      kept == {j \in 1..Len(ds) : ds[j].k # "alt"}
  IN CHOOSE j \in kept : Cardinality({m \in kept : m <= j}) = k

EntriesFollowDummies(c) ==
  /\ Len(c.ifc.passedArguments)
       = Cardinality({j \in 1..Len(c.characteristic.dummyArguments) :
                        c.characteristic.dummyArguments[j].k # "alt"})
  /\ \A k \in 1..Len(c.ifc.passedArguments) :
        c.ifc.passedArguments[k].entity \in {0, DummyOfEntry(c, k)}

\* C29 (as claimed): in a call with interface details, getDummySymbol
\* gives for each entry of passedArguments the dummy symbol the entry was
\* built for, and getArgumentValue gives for each dummy symbol the value
\* cell of the entry built for it, also when the interface has
\* alternate-return dummies.
C29_SymbolsMatchEntities ==
  \A i \in 1..Len(callers) :
     LET c == callers[i]
         sym == unit[c.name]
     IN (c.ifc.fail = "none" /\ getInterfaceDetails(sym) # <<>>)
          => /\ EntriesFollowDummies(c)
             /\ \A k \in 1..Len(c.ifc.passedArguments) :
                   /\ getDummySymbol(c, sym, k) = DummyOfEntry(c, k)
                   /\ getArgumentValue(c, sym, DummyOfEntry(c, k)).outcome
                        = "ok"
                   /\ getArgumentValue(c, sym, DummyOfEntry(c, k)).cell
                        = c.ifc.passedArguments[k].firArgument

\* C29 witness of the failing case: the interface is (alternate return,
\* object); the only entry of passedArguments was built for the second
\* dummy, getDummySymbol gives the null symbol of the alternate return for
\* it and getArgumentValue indexes passedArguments past its end.
C29_ShiftedByAlternateReturn ==
  \E i \in 1..Len(callers) :
     LET c == callers[i]
         sym == unit[c.name]
     IN /\ c.ifc.fail = "none"
        /\ dummyArgs(sym) = <<0, 2>>
        /\ Len(c.ifc.passedArguments) = 1
        /\ DummyOfEntry(c, 1) = 2
        /\ getDummySymbol(c, sym, 1) = 0
        /\ getArgumentValue(c, sym, 2).outcome = "outOfRange"

\* ------------------------------ result bookkeeping (under SpecResult)

\* side().hasAlternateReturns() of the interface of x: the call, the
\* definition or the signature has an alternate return.
HasAlternateReturns(x) == x.ifc.altReturns

\* The result of ifc is passed through a hidden address slot and a hidden
\* length slot, in that order.
ResultInHiddenSlots(ifc) ==
  \E a \in ResultSlots(ifc) :
     /\ ResultSlots(ifc) = {a, a + 1}
     /\ ifc.inputs[a].property = "CharAddress"
     /\ ifc.inputs[a + 1].property = "CharLength"

\* The result of proc is not returned as a plain value: it is a character
\* outside BIND(C), a derived type that is not a vector type, or a result
\* that requires an explicit interface.
NeedsCallerStorage(proc) ==
  /\ proc.functionResult # <<>>
  /\ proc.functionResult[1].k = "data"
  /\ \/ ~CanBeReturnedViaImplicitInterface(proc.functionResult[1])
     \/ proc.functionResult[1].cat = "Character" /\ ~proc.bindC
     \/ proc.functionResult[1].cat = "Derived"
          /\ proc.functionResult[1].dk # "vector"

\* C30: after determineInterface the output list holds at most one slot,
\* and one exactly when the procedure has a function result or alternate
\* returns; there is a result PassedEntity exactly when the result is
\* passed through the hidden address and length input slots; the
\* save-result flag and the result PassedEntity are never both set; and
\* for a call whose result needs caller storage getResultStorageType finds
\* the result PassedEntity or the flag with an output slot.
C30_ResultBookkeeping ==
  /\ \A x \in DeterminedInterfaces :
        x.ifc.fail = "none"
          => /\ Len(x.ifc.outputs) <= 1
             /\ Len(x.ifc.outputs) = 1
                  <=> (x.proc.functionResult # <<>>
                         \/ HasAlternateReturns(x))
             /\ x.ifc.passedResult # <<>> <=> ResultInHiddenSlots(x.ifc)
             /\ Len(x.ifc.passedResult) <= 1
             /\ ~(x.ifc.saveResult /\ x.ifc.passedResult # <<>>)
             /\ x.ifc.saveResult => x.ifc.outputs # <<>>
  /\ \A i \in 1..Len(callers) :
        (callers[i].ifc.fail = "none"
           /\ NeedsCallerStorage(callers[i].characteristic))
          => /\ callers[i].ifc.passedResult # <<>> \/ callers[i].ifc.saveResult
             /\ getResultStorageType(callers[i]) # <<>>

\* C30 witnesses: a call whose result is passed in the hidden slots and
\* whose storage type is the character type of the address slot.
C30_Witness ==
  \E i \in 1..Len(callers) :
     /\ callers[i].ifc.fail = "none"
     /\ NeedsCallerStorage(callers[i].characteristic)
     /\ callers[i].ifc.passedResult # <<>>
     /\ ~callers[i].ifc.saveResult
     /\ Len(callers[i].ifc.outputs) = 1
     /\ getResultStorageType(callers[i]) = <<(<<"char", lenToken(<<8>>)>>)>>

====
